---- MODULE Spec2Model ----
(***************************************************************************)
(* A model of marasa's segmented, append-only stores.                      *)
(*                                                                         *)
(* StateKeeper (src/marasa/statekeeper.py): a partitioned key/value store  *)
(* that writes one line per update into files "<ns>.<segment:09>", the     *)
(* first line of a file being a snapshot and the later ones deltas.        *)
(*                                                                         *)
(* A directory is modelled as a function from file names to the sequence   *)
(* of lines of the file; a file name is the pair <<ns, digits>> of the     *)
(* text before the dot and the decimal digits after it.  A dict is a       *)
(* function whose domain is the set of its keys.                           *)
(***************************************************************************)
EXTENDS Integers, Sequences, FiniteSets, TLC

\* ---------------------------------------------------------------- bounds
\* segment_size passed to the constructor (tests/conftest.py uses 5)
segment_size == 2
\* number of write/multiwrite calls explored
MaxWrites == 4
\* number of close-and-reopen cycles explored
MaxReopens == 1

\* ---------------------------------------------------------------- inputs
Namespaces == {"a", "b"}
Keys == {"x", "y"}

\* the sentinel object of constants.py, distinct from every stored value
NOTFOUND == -1
\* An Optional argument is a sequence of length at most one:
\* Python's None is the empty one, the value v is Some(v)
None == << >>
Some(v) == <<v>>

\* the empty dict
EmptyDict == [k \in {} |-> 0]

\* kvdict arguments of write()
KVInputs ==
    { [k \in {"x"} |-> 1],
      [k \in {"y"} |-> 1],
      [k \in {"x", "y"} |-> 2] }

\* ns_kvdict arguments of multiwrite(), in dict iteration order
MultiInputs ==
    { << >>,
      << <<"a", [k \in {"x"} |-> 1]>>, <<"b", [k \in {"y"} |-> 2]>> >>,
      << <<"b", [k \in {"x"} |-> 2]>>, <<"a", [k \in {"y"} |-> 1]>> >> }

\* ---------------------------------------------------------------- state
VARIABLES
    files,      \* the storage directory: file name -> lines
    _state,     \* StateKeeper._state: ns -> <<last seqno, dict>>
    _seq,       \* StateKeeper._seq
    ret,        \* what the last write/multiwrite call returned
    hist,       \* the calls made so far: <<seqno, ns -> kvdict>>
    reopens,    \* how many times the store was closed and reopened
    closed,     \* <<_state, _seq>> of the instance that was closed last
    lastOp,     \* name of the last operation
    ml_files,   \* the storage directory of the MultiLog: file name -> lines
    _cur,       \* MultiLog._cur: tag -> <<seqno, data>>
    ml_seq,     \* MultiLog._seq
    ml_ret,     \* what the last put call returned
    ml_hist,    \* the records put so far: <<seqno, tag, data>>
    events,     \* the events given to SerializingMultiLog.put so far
    ml_reopens, \* how many times the MultiLog was closed and constructed again
    ml_closed,  \* <<_cur, _seq>> of the MultiLog that was closed last
    ml_exc,     \* the exception the last MultiLog constructor raised, "" if none
    writelock,  \* ThreadSafeLogMixin.writelock: None, or Some(thread holding it)
    th_pc,      \* thread -> where it is in its call
    th_local,   \* thread -> the arguments and locals of its call
    th_ret,     \* thread -> what its calls returned or raised, in order
    th_calls,   \* thread -> how many calls it has started
    mono_files, \* the storage directory of the MonoLog: file name -> lines
    mono_cur,   \* MonoLog._cur
    mono_seq,   \* MonoLog._seq
    mono_ret,   \* what the last MonoLog.put call returned
    mono_hist,  \* the records put into the MonoLog so far: <<seqno, data>>
    got,        \* engine -> how its last get call ended: "none", "" or the exception
    ctor,       \* the last engine constructed with a segment size of the caller's
    ops,        \* MultiWrite.ops, as the items of the dict in insertion order
    built,      \* the write calls made on the MultiWrite so far: <<ns, kvdict>>
    sf_dir,     \* a directory given to the segment file selection
    sf_arg,     \* the <<label, seq>> it was asked for
    sf_out,     \* what the selection of each engine returned
    mono_lock,  \* MonoLog.writelock when it is a lock: the thread that holds it
    mono_mixin, \* whether the MonoLog object is of a class (ThreadSafeLogMixin, MonoLog)
    gen         \* a generator made by StateKeeper.read_ns: where it stands and its locals

skvars == <<files, _state, _seq, ret, hist, reopens, closed, lastOp>>

mlvars == <<ml_files, _cur, ml_seq, ml_ret, ml_hist, events, ml_reopens, ml_closed, ml_exc>>

thvars == <<writelock, th_pc, th_local, th_ret, th_calls>>

monovars == <<mono_files, mono_cur, mono_seq, mono_ret, mono_hist>>

callvars == <<got, ctor>>

bldvars == <<ops, built>>

sfvars == <<sf_dir, sf_arg, sf_out>>

\* the lock of the MonoLog object and how the object is composed
lockvars == <<mono_lock, mono_mixin>>

\* the read_ns generator
itvars == <<gen>>

auxvars == <<lockvars, itvars>>

\* all that neither the StateKeeper, nor the MultiLog, nor the threads hold
restvars == <<monovars, callvars, bldvars, sfvars, auxvars>>

vars == <<skvars, mlvars, thvars, restvars>>

\* ---------------------------------------------------------------- dicts
\* dict.update(): d merged with kv, kv winning
Update(d, kv) ==
    [k \in (DOMAIN d) \cup (DOMAIN kv) |-> IF k \in DOMAIN kv THEN kv[k] ELSE d[k]]

\* dict.get(k, default)
DictGet(d, k, default) == IF k \in DOMAIN d THEN d[k] ELSE default

\* ---------------------------------------------------------------- file names
Pow10(n) == IF n = 0 THEN 1 ELSE
            IF n = 1 THEN 10 ELSE
            IF n = 2 THEN 100 ELSE
            IF n = 3 THEN 1000 ELSE
            IF n = 4 THEN 10000 ELSE
            IF n = 5 THEN 100000 ELSE
            IF n = 6 THEN 1000000 ELSE
            IF n = 7 THEN 10000000 ELSE 100000000

\* f"{seg:09}": the decimal digits of seg, zero-padded to width 9
Fmt09(seg) == [i \in 1..9 |-> (seg \div Pow10(9 - i)) % 10]

\* int(text): the number a digit string denotes
RECURSIVE ParseInt(_)
ParseInt(d) ==
    IF Len(d) = 0 THEN 0
    ELSE 10 * ParseInt(SubSeq(d, 1, Len(d) - 1)) + d[Len(d)]

\* every segment in the first file of the namespace
_segfile_for_seg_first(ns, seg) == <<ns, Fmt09(0)>>

\* self.dir / f"{ns}.{seg:09}"
_segfile_for_seg(ns, seg) == <<ns, Fmt09(seg)>>

\* a glob that matches the files of every namespace
_segfiles_any_ns(dir, ns) == DOMAIN dir

\* self.dir.glob(ns + '.*')
_segfiles(dir, ns) == {f \in DOMAIN dir : f[1] = ns}

\* int(f.name.split('.')[-1])
fileseg(f) == ParseInt(f[2])

\* the names before the first dot of the files in the directory
_namespaces(dir) == {f[1] : f \in DOMAIN dir}

\* _segfile_for_seq: the file to open for the state as of s (None: latest);
\* the loop returns the file whose index is the segment of s when it meets
\* it, and otherwise the biggest index it saw below that segment
_segfile_for_seq(dir, ns, s) ==
    LET seg == IF s = None THEN None ELSE Some(s[1] \div segment_size)
        exact == {f \in _segfiles(dir, ns) : seg # None /\ fileseg(f) = seg[1]}
        cands == {f \in _segfiles(dir, ns) : seg = None \/ fileseg(f) < seg[1]}
    IN  IF exact # {} THEN CHOOSE f \in exact : TRUE
        ELSE IF cands = {} THEN None
        ELSE CHOOSE f \in cands : \A g \in cands : fileseg(g) <= fileseg(f)

\* ---------------------------------------------------------------- lines
\* str(seqno) + " " + json.dumps(data) + "\n"
dataline(seqno, data) == [seqno |-> seqno, jdata |-> data]

\* _segfile_reader: (int(seqno), json.loads(jdata)) of one line
_segfile_reader(line) == <<line.seqno, line.jdata>>

\* ---------------------------------------------------------------- writing
\* _write that stores only the changes in a new file, without the cached state
_write_no_snapshot(st, ns, seqno, kvdict) ==
    LET segfile == _segfile_for_seg(ns, seqno \div segment_size)
        exists  == segfile \in DOMAIN st.files
        cached  == IF ns \in DOMAIN st.cache THEN st.cache[ns][2] ELSE EmptyDict
        line    == dataline(seqno, Update(EmptyDict, kvdict))
        lines   == IF exists THEN Append(st.files[segfile], line) ELSE <<line>>
    IN  [ files |-> [f \in (DOMAIN st.files) \cup {segfile} |->
                        IF f = segfile THEN lines ELSE st.files[f]],
          cache |-> [n \in (DOMAIN st.cache) \cup {ns} |->
                        IF n = ns THEN <<seqno, Update(cached, kvdict)>>
                        ELSE st.cache[n]] ]

\* _write that caches the kvdict given in place of the merged state
_write_cache_replace(st, ns, seqno, kvdict) ==
    LET segfile == _segfile_for_seg(ns, seqno \div segment_size)
        exists  == segfile \in DOMAIN st.files
        cached  == IF ns \in DOMAIN st.cache THEN st.cache[ns][2] ELSE EmptyDict
        data    == IF exists THEN Update(EmptyDict, kvdict) ELSE Update(cached, kvdict)
        line    == dataline(seqno, data)
        lines   == IF exists THEN Append(st.files[segfile], line) ELSE <<line>>
    IN  [ files |-> [f \in (DOMAIN st.files) \cup {segfile} |->
                        IF f = segfile THEN lines ELSE st.files[f]],
          cache |-> [n \in (DOMAIN st.cache) \cup {ns} |->
                        IF n = ns THEN <<seqno, Update(EmptyDict, kvdict)>>
                        ELSE st.cache[n]] ]

\* _write: one record of ns at seqno, on the store st = [files, cache]
_write(st, ns, seqno, kvdict) ==
    LET segfile == _segfile_for_seg(ns, seqno \div segment_size)
        exists  == segfile \in DOMAIN st.files
        cached  == IF ns \in DOMAIN st.cache THEN st.cache[ns][2] ELSE EmptyDict
        data    == IF exists THEN Update(EmptyDict, kvdict) ELSE Update(cached, kvdict)
        line    == dataline(seqno, data)
        lines   == IF exists THEN Append(st.files[segfile], line) ELSE <<line>>
    IN  [ files |-> [f \in (DOMAIN st.files) \cup {segfile} |->
                        IF f = segfile THEN lines ELSE st.files[f]],
          cache |-> [n \in (DOMAIN st.cache) \cup {ns} |->
                        IF n = ns THEN <<seqno, Update(cached, kvdict)>>
                        ELSE st.cache[n]] ]

\* the loop of multiwrite over the items of ns_kvdict
RECURSIVE write_all(_, _, _)
write_all(st, items, seqno) ==
    IF items = << >> THEN st
    ELSE write_all(_write(st, items[1][1], seqno, items[1][2]), Tail(items), seqno)

\* the ns -> kvdict mapping of a list of items
ItemsMap(items) ==
    [n \in {items[i][1] : i \in DOMAIN items} |->
        items[CHOOSE i \in DOMAIN items : items[i][1] = n][2]]

\* write returning the counter as it was before the increment
write_returns_old(ns, kvdict) ==
    /\ Len(hist) < MaxWrites
    /\ LET s  == _seq + 1
           st == _write([files |-> files, cache |-> _state], ns, s, kvdict)
       IN  /\ _seq' = s
           /\ files' = st.files
           /\ _state' = st.cache
           /\ ret' = _seq
           /\ hist' = Append(hist, <<s, ItemsMap(<< <<ns, kvdict>> >>)>>)
    /\ lastOp' = "write"
    /\ UNCHANGED <<reopens, closed>>
    /\ UNCHANGED <<mlvars, thvars, restvars>>

\* StateKeeper.write(namespace, kvdict)
write(ns, kvdict) ==
    /\ Len(hist) < MaxWrites
    /\ LET s  == _seq + 1
           st == _write([files |-> files, cache |-> _state], ns, s, kvdict)
       IN  /\ _seq' = s
           /\ files' = st.files
           /\ _state' = st.cache
           /\ ret' = s
           /\ hist' = Append(hist, <<s, ItemsMap(<< <<ns, kvdict>> >>)>>)
    /\ lastOp' = "write"
    /\ UNCHANGED <<reopens, closed>>
    /\ UNCHANGED <<mlvars, thvars, restvars>>

\* the loop of a multiwrite that increments the counter for each namespace
RECURSIVE write_all_incr(_, _, _)
write_all_incr(st, items, seqno) ==
    IF items = << >> THEN st
    ELSE write_all_incr(_write(st, items[1][1], seqno + 1, items[1][2]),
                        Tail(items), seqno + 1)

\* multiwrite with the increment inside the loop
multiwrite_incr_in_loop(items) ==
    /\ Len(hist) < MaxWrites
    /\ LET s  == _seq + Len(items)
           st == write_all_incr([files |-> files, cache |-> _state], items, _seq)
       IN  /\ _seq' = s
           /\ files' = st.files
           /\ _state' = st.cache
           /\ ret' = s
           /\ hist' = Append(hist, <<s, ItemsMap(items)>>)
    /\ lastOp' = "multiwrite"
    /\ UNCHANGED <<reopens, closed>>
    /\ UNCHANGED <<mlvars, thvars, restvars>>

\* StateKeeper.multiwrite(ns_kvdict)
multiwrite(items) ==
    /\ Len(hist) < MaxWrites
    /\ LET s  == _seq + 1
           st == write_all([files |-> files, cache |-> _state], items, s)
       IN  /\ _seq' = s
           /\ files' = st.files
           /\ _state' = st.cache
           /\ ret' = s
           /\ hist' = Append(hist, <<s, ItemsMap(items)>>)
    /\ lastOp' = "multiwrite"
    /\ UNCHANGED <<reopens, closed>>
    /\ UNCHANGED <<mlvars, thvars, restvars>>

\* ---------------------------------------------------------------- reading
\* the result of a call: the value returned, or the exception raised
Return(v) == [exc |-> "", val |-> v]
Raise(e) == [exc |-> e, val |-> NOTFOUND]

\* state.update(data) over the lines i..Len(lines) of an open file
RECURSIVE FoldLines(_, _, _)
FoldLines(lines, i, acc) ==
    IF i > Len(lines) THEN acc
    ELSE FoldLines(lines, i + 1, Update(acc, _segfile_reader(lines[i])[2]))

\* _read_ns: (last seqno, latest state) of ns, read from its latest file
_read_ns(dir, ns) ==
    LET segfile == _segfile_for_seq(dir, ns, None)
    IN  IF segfile = None THEN <<0, EmptyDict>>
        ELSE <<_segfile_reader(dir[segfile][Len(dir[segfile])])[1],
               FoldLines(dir[segfile], 1, EmptyDict)>>

RECURSIVE SetMax(_)
SetMax(S) ==
    IF S = {} THEN 0
    ELSE LET x == CHOOSE x \in S : TRUE
             m == SetMax(S \ {x})
         IN  IF x > m THEN x ELSE m

\* StateKeeper.namespaces(): the keys of the cache
namespaces(cache) == DOMAIN cache

\* reload: the largest last seqno over the namespaces of the cache
reload(dir, cache) == SetMax({_read_ns(dir, ns)[1] : ns \in namespaces(cache)})

\* _read_cur: the cached value(s); an empty cache is reloaded first
_read_cur(dir, cache, sq, ns, key) ==
    IF cache = << >> /\ sq # 0 /\ reload(dir, cache) # sq
    THEN Raise("IOError")
    ELSE LET value == IF ns \in DOMAIN cache THEN cache[ns][2] ELSE EmptyDict
         IN  IF key = None THEN Return(value)
             ELSE Return(DictGet(value, key[1], NOTFOUND))

\* the loop of _read_history: update with the lines up to the first one
\* whose sequence number is above seqno
RECURSIVE FoldUpTo(_, _, _, _)
FoldUpTo(lines, i, seqno, acc) ==
    IF i > Len(lines) THEN acc
    ELSE LET rec == _segfile_reader(lines[i])
         IN  IF rec[1] <= seqno
             THEN FoldUpTo(lines, i + 1, seqno, Update(acc, rec[2]))
             ELSE acc

\* _read_history: the state as of seqno, read from one segment file
_read_history(dir, cache, sq, ns, key, seqno) ==
    IF seqno = sq THEN _read_cur(dir, cache, sq, ns, key)
    ELSE LET segfile == _segfile_for_seq(dir, ns, Some(seqno))
         IN  IF segfile = None THEN Raise("AttributeError")
             ELSE LET st == FoldUpTo(dir[segfile], 1, seqno, EmptyDict)
                  IN  IF key = None THEN Return(st)
                      ELSE Return(DictGet(st, key[1], NOTFOUND))

\* a get that does not look at how low seqno is
get_on_any_seqno(dir, cache, sq, ns, key, seqno) ==
    IF seqno = None THEN _read_cur(dir, cache, sq, ns, key)
    ELSE _read_history(dir, cache, sq, ns, key, seqno[1])

\* StateKeeper.get(namespace, key=None, seqno=None) on a given store
get_on(dir, cache, sq, ns, key, seqno) ==
    IF seqno = None THEN _read_cur(dir, cache, sq, ns, key)
    ELSE IF seqno[1] < 1 THEN Raise("ValueError")
    ELSE _read_history(dir, cache, sq, ns, key, seqno[1])

\* StateKeeper.get on the current store
get(ns, key, seqno) == get_on(files, _state, _seq, ns, key, seqno)

\* ---------------------------------------------------------------- replay
\* what read_ns yields in place of a map when key is None and there is no
\* file to start from: the NOTFOUND object, written as a map no dict equals
NOTFOUND_FRAME == [k \in {"NOTFOUND"} |-> NOTFOUND]

\* the first loop of read_ns over the lines i..Len(lines) of the file chosen
\* for start_seqno, and the yield after it; state is the dict being updated,
\* out the frames yielded so far
RECURSIVE read_ns_first(_, _, _, _, _, _, _)
read_ns_first(lines, i, start_seqno, key, st, sentfirst, out) ==
    IF i > Len(lines)
    THEN IF sentfirst THEN out
         ELSE Append(out, <<start_seqno, IF key = None THEN st ELSE st[key[1]]>>)
    ELSE LET sq   == _segfile_reader(lines[i])[1]
             data == _segfile_reader(lines[i])[2]
             st1  == Update(st, data)
         IN  IF key = None
             THEN read_ns_first(lines, i + 1, start_seqno, key, st1, sentfirst,
                      IF sq >= start_seqno THEN Append(out, <<sq, st1>>) ELSE out)
             ELSE LET k    == key[1]
                      due  == ~sentfirst /\ sq >= start_seqno
                      out1 == IF due THEN Append(out, <<start_seqno, st1[k]>>) ELSE out
                      st2  == IF sentfirst THEN st1
                              ELSE [st1 EXCEPT ![k] = DictGet(data, k, NOTFOUND)]
                      out2 == IF k \in DOMAIN data
                              THEN Append(out1, <<sq, data[k]>>) ELSE out1
                  IN  read_ns_first(lines, i + 1, start_seqno, key, st2,
                                    sentfirst \/ due, out2)

\* the yields of the second loop of read_ns for the lines i.. of one file
RECURSIVE read_ns_deltas(_, _, _, _)
read_ns_deltas(lines, i, key, out) ==
    IF i > Len(lines) THEN out
    ELSE LET sq   == _segfile_reader(lines[i])[1]
             data == _segfile_reader(lines[i])[2]
         IN  read_ns_deltas(lines, i + 1, key,
                 IF key = None THEN Append(out, <<sq, data>>)
                 ELSE IF key[1] \in DOMAIN data THEN Append(out, <<sq, data[key[1]]>>)
                 ELSE out)

\* a last segment that is one short
lastseg_one_short(sq) == (sq \div segment_size) - 1

\* lastseg = lambda : self.seq // self.segment_size
lastseg(sq) == sq \div segment_size

\* the second loop of read_ns: the segments after curseg up to lastseg()
RECURSIVE read_ns_later(_, _, _, _, _, _)
read_ns_later(dir, sq, ns, key, curseg, out) ==
    IF ~(curseg < lastseg(sq)) THEN out
    ELSE LET segfile == _segfile_for_seg(ns, curseg + 1)
         IN  read_ns_later(dir, sq, ns, key, curseg + 1,
                 IF segfile \notin DOMAIN dir THEN out
                 ELSE read_ns_deltas(dir[segfile], 1, key, out))

\* StateKeeper.read_ns(namespace, start_seqno, key=None), run to exhaustion
\* with no write in between: the sequence of (seqno, value) pairs it yields
read_ns_on(dir, sq, ns, start_seqno, key) ==
    LET segfile == _segfile_for_seq(dir, ns, Some(start_seqno))
        first   == IF segfile = None
                   THEN << <<start_seqno,
                             IF key = None THEN NOTFOUND_FRAME ELSE NOTFOUND>> >>
                   ELSE read_ns_first(dir[segfile], 1, start_seqno, key,
                            IF key = None THEN EmptyDict
                            ELSE [k \in {key[1]} |-> NOTFOUND],
                            FALSE, << >>)
    IN  read_ns_later(dir, sq, ns, key, start_seqno \div segment_size, first)

\* StateKeeper.read_ns on the current store
read_ns(ns, start_seqno, key) == read_ns_on(files, _seq, ns, start_seqno, key)

\* ---------------------------------------------------------------- merged replay
\* the function f without the argument a
Without(f, a) == [x \in (DOMAIN f) \ {a} |-> f[x]]

\* min(current.items(), key=lambda i: i[1][0]): a namespace whose head
\* record has the lowest sequence number; cur maps each open cursor to the
\* lines it has not passed, the first of them being its current item
MinItem(cur) ==
    CHOOSE ns \in DOMAIN cur :
        \A k \in DOMAIN cur :
            _segfile_reader(cur[ns][1])[1] <= _segfile_reader(cur[k][1])[1]

\* a loop that takes the lowest item only, one partition to a frame
read_coalesce_one_item(cur, minseq, delta, sq) ==
    LET ns   == MinItem(cur)
        rec  == _segfile_reader(cur[ns][1])
        rest == Tail(cur[ns])
    IN  [ cur   |-> IF rest = << >> THEN Without(cur, ns) ELSE [cur EXCEPT ![ns] = rest],
          delta |-> [n \in {ns} |-> rec[2]],
          seq   |-> rec[1] ]

\* the coalescing loop of read: while a current item carries minseq, take
\* the lowest item into delta and advance its cursor, dropping it at its end
RECURSIVE read_coalesce(_, _, _, _)
read_coalesce(cur, minseq, delta, sq) ==
    IF ~(\E k \in DOMAIN cur : _segfile_reader(cur[k][1])[1] = minseq)
    THEN [cur |-> cur, delta |-> delta, seq |-> sq]
    ELSE LET ns   == MinItem(cur)
             rec  == _segfile_reader(cur[ns][1])
             rest == Tail(cur[ns])
             cur1 == IF rest = << >> THEN Without(cur, ns)
                     ELSE [cur EXCEPT ![ns] = rest]
         IN  read_coalesce(cur1, minseq,
                 [n \in (DOMAIN delta) \cup {ns} |->
                     IF n = ns THEN rec[2] ELSE delta[n]],
                 rec[1])

\* { ns: { key: state[ns].get(key, NOTFOUND) } for ns in nspaces }
KeyView(state, nspaces, key) ==
    [ns \in nspaces |-> [k \in {key} |-> DictGet(state[ns], key, NOTFOUND)]]

\* the body of 'while cursors' in read, repeated until no cursor is left;
\* it is the loop state [state, sentfirst, out, exc]
RECURSIVE read_segment(_, _, _, _, _)
read_segment(cur, nspaces, start_seqno, key, it) ==
    IF DOMAIN cur = {} \/ it.exc # "" THEN it
    ELSE LET minseq == _segfile_reader(cur[MinItem(cur)][1])[1]
             co     == read_coalesce(cur, minseq, << >>, minseq)
             delta  == co.delta
             sq     == co.seq
         IN  IF key = None
             THEN read_segment(co.cur, nspaces, start_seqno, key,
                      [it EXCEPT !.out = Append(@, <<sq, delta>>)])
             ELSE LET k      == key[1]
                      state1 == Update(it.state, delta)
                  IN  IF ~it.sentfirst
                      THEN read_segment(co.cur, nspaces, start_seqno, key,
                               [ state     |-> KeyView(state1, nspaces, k),
                                 sentfirst |-> sq >= start_seqno,
                                 out       |-> IF sq >= start_seqno
                                               THEN Append(it.out,
                                                        <<start_seqno, KeyView(state1, nspaces, k)>>)
                                               ELSE it.out,
                                 exc       |-> "" ])
                      ELSE IF \E ns \in DOMAIN delta : k \notin DOMAIN delta[ns]
                           \* del delta[ns] inside 'for ns in delta'
                           THEN [it EXCEPT !.exc = "RuntimeError"]
                           ELSE read_segment(co.cur, nspaces, start_seqno, key,
                                    [it EXCEPT !.state = state1, !.out =
                                        IF DOMAIN delta = {} THEN @
                                        ELSE Append(@, <<sq,
                                                 [ns \in DOMAIN delta |->
                                                     [j \in {k} |-> delta[ns][k]]]>>)])

\* the outer loop of read: the segments from curseg while curseg is below
\* the segment of the counter
RECURSIVE read_segments(_, _, _, _, _, _, _)
read_segments(dir, sq, nspaces, start_seqno, key, curseg, it) ==
    IF ~(curseg < sq \div segment_size) \/ it.exc # "" THEN it
    ELSE LET open == {ns \in nspaces : _segfile_for_seg(ns, curseg) \in DOMAIN dir}
             cur  == [ns \in open |-> dir[_segfile_for_seg(ns, curseg)]]
         IN  read_segments(dir, sq, nspaces, start_seqno, key, curseg + 1,
                 read_segment(cur, nspaces, start_seqno, key, it))

\* StateKeeper.read(start_seqno, namespaces=None, key=None), run to
\* exhaustion with no write in between: the frames it yields, in order, and
\* the exception that ended it, if any
read_on(dir, sq, start_seqno, nsarg, key) ==
    LET nspaces == IF nsarg = None THEN _namespaces(dir) ELSE nsarg[1]
        it == read_segments(dir, sq, nspaces, start_seqno, key,
                  start_seqno \div segment_size,
                  [ state     |-> [ns \in nspaces |-> EmptyDict],
                    sentfirst |-> FALSE,
                    out       |-> << >>,
                    exc       |-> "" ])
    IN  [frames |-> it.out, exc |-> it.exc]

\* StateKeeper.read on the current store
read(start_seqno, nsarg, key) == read_on(files, _seq, start_seqno, nsarg, key)

\* ---------------------------------------------------------------- reopening
\* close, then StateKeeper.__init__ on the same directory: the cache starts
\* empty and the counter is what reload() returns for that empty cache
reopen ==
    /\ reopens < MaxReopens
    /\ reopens' = reopens + 1
    /\ closed' = <<_state, _seq>>
    /\ _state' = << >>
    /\ _seq' = reload(files, << >>)
    /\ lastOp' = "reopen"
    /\ UNCHANGED <<files, ret, hist>>
    /\ UNCHANGED <<mlvars, thvars, restvars>>

\* ================================================================ MultiLog
\* the most puts in one behaviour
MaxPuts == 4

\* tags given to MultiLog.put
Tags == {"a", "b"}

\* payload strings; a string is the sequence of its pieces, so that what is
\* attached to it in a file line stays visible
Payloads == {<<"v1">>, <<"v2">>}

\* NOTFOUND where a payload string is expected
NOTFOUND_DATUM == <<"NOTFOUND">>

\* the elements of a tags list: a string, or an object that has a __name__
Str(name) == [kind |-> "str", name |-> name]

Type(name) == [kind |-> "type", name |-> name]

\* f"{tag}": a string formats as itself, a class as <class '...'> around its
\* (qualified) name, which is never the name of a tag
format(tag) == IF tag.kind = "str" THEN tag.name ELSE "<class '" \o tag.name \o "'>"

\* f"{seqno!s} {tag} {data}\n"
MultiLog_dataline(seqno, tag, data) == [seqno |-> seqno, tag |-> tag, jdata |-> data \o <<"\n">>]

\* MultiLog._segfile_reader: line.split(' ', 2), the third part being the
\* rest of the line as it stands in the file
MultiLog_segfile_reader(line) == <<line.seqno, line.tag, line.jdata>>

\* MultiLog._segfiles(tag): glob of f'{tag}.*'
MultiLog_segfiles(dir, tag) == {f \in DOMAIN dir : f[1] = format(tag)}

\* MultiLog._tags: the names before the last dot of the files
_tags(dir) == {f[1] : f \in DOMAIN dir}

\* MultiLog._segfile_for_seg: f"{tag}.{seg:09}"
MultiLog_segfile_for_seg(tag, seg) == <<format(tag), Fmt09(seg)>>

\* MultiLog._segfile_for_seqno: as StateKeeper._segfile_for_seq
_segfile_for_seqno(dir, tag, s) ==
    LET seg == IF s = None THEN None ELSE Some(s[1] \div segment_size)
        fs    == MultiLog_segfiles(dir, tag)
        exact == {f \in fs : seg # None /\ fileseg(f) = seg[1]}
        cands == {f \in fs : seg = None \/ fileseg(f) < seg[1]}
    IN  IF exact # {} THEN CHOOSE f \in exact : TRUE
        ELSE IF cands = {} THEN None
        ELSE CHOOSE f \in cands : \A g \in cands : fileseg(g) <= fileseg(f)

\* MultiLog._write that appends the line and leaves the tail cache alone
MultiLog_write_no_cur(ml, seqno, tag, data) ==
    LET segfile == MultiLog_segfile_for_seg(Str(tag), seqno \div segment_size)
        line    == MultiLog_dataline(seqno, tag, data)
        lines   == IF segfile \in DOMAIN ml.files
                   THEN Append(ml.files[segfile], line) ELSE <<line>>
    IN  [ files |-> [f \in (DOMAIN ml.files) \cup {segfile} |->
                        IF f = segfile THEN lines ELSE ml.files[f]],
          cur   |-> ml.cur ]

\* MultiLog._write on ml = [files, cur]: append the line to the file of the
\* segment of seqno, then set the tail cache entry of the tag
MultiLog_write(ml, seqno, tag, data) ==
    LET segfile == MultiLog_segfile_for_seg(Str(tag), seqno \div segment_size)
        line    == MultiLog_dataline(seqno, tag, data)
        lines   == IF segfile \in DOMAIN ml.files
                   THEN Append(ml.files[segfile], line) ELSE <<line>>
    IN  [ files |-> [f \in (DOMAIN ml.files) \cup {segfile} |->
                        IF f = segfile THEN lines ELSE ml.files[f]],
          cur   |-> [t \in (DOMAIN ml.cur) \cup {tag} |->
                        IF t = tag THEN <<seqno, data>> ELSE ml.cur[t]] ]

\* MultiLog.put on ml = [files, cur, seq]
put_on(ml, event, tag) ==
    LET seq == ml.seq + 1
        w   == MultiLog_write([files |-> ml.files, cur |-> ml.cur], seq, tag, event)
    IN  [files |-> w.files, cur |-> w.cur, seq |-> seq, ret |-> seq]

\* MultiLog.put(event, tag)
put(event, tag) ==
    /\ ml_exc = ""
    /\ Len(ml_hist) < MaxPuts
    /\ LET r == put_on([files |-> ml_files, cur |-> _cur, seq |-> ml_seq], event, tag)
       IN  /\ ml_files' = r.files
           /\ _cur' = r.cur
           /\ ml_seq' = r.seq
           /\ ml_ret' = r.ret
           /\ ml_hist' = Append(ml_hist, <<r.seq, tag, event>>)
    /\ UNCHANGED <<events, ml_reopens, ml_closed, ml_exc>>
    /\ UNCHANGED <<skvars, thvars, restvars>>

\* ---------------------------------------------------------------- MultiLog: reading
\* a result of a MultiLog call that raises
RaiseDatum(e) == [exc |-> e, val |-> NOTFOUND_DATUM]

\* MultiLog._tail_tagseg: <<last seqno, latest data>> of the tag's latest
\* file, the data being the third part of the last line
_tail_tagseg(dir, t) ==
    LET segfile == _segfile_for_seqno(dir, Str(t), None)
    IN  IF segfile = None THEN <<0, NOTFOUND_DATUM>>
        ELSE LET rec == MultiLog_segfile_reader(dir[segfile][Len(dir[segfile])])
             IN  <<rec[1], rec[3]>>

\* the loop of MultiLog.reload over the tags still to do; latest[t] is read
\* before anything was stored under t
RECURSIVE reload_loop(_, _, _)
reload_loop(dir, todo, latest) ==
    IF todo = {} THEN [exc |-> "", latest |-> latest]
    ELSE LET t    == CHOOSE x \in todo : TRUE
             tail == _tail_tagseg(dir, t)
         IN  IF t \notin DOMAIN latest THEN [exc |-> "KeyError", latest |-> latest]
             ELSE IF tail[1] > latest[t][1]
                  THEN reload_loop(dir, todo \ {t}, [latest EXCEPT ![t] = tail])
                  ELSE reload_loop(dir, todo \ {t}, latest)

\* MultiLog.reload on ml = [cur, seq]: what _cur and _seq are afterwards and
\* the exception raised, if any (then both are as before)
MultiLog_reload(dir, ml) ==
    LET r == reload_loop(dir, _tags(dir), << >>)
    IN  IF r.exc # "" THEN [exc |-> r.exc, cur |-> ml.cur, seq |-> ml.seq]
        ELSE [ exc |-> "", cur |-> r.latest,
               seq |-> IF DOMAIN r.latest = {} THEN 0
                       ELSE SetMax({r.latest[t][1] : t \in DOMAIN r.latest}) ]

\* self._cur[t] exists for the element t of a tags list
InCur(cur, t) == t.kind = "str" /\ t.name \in DOMAIN cur

\* the entry with the largest seqno
MaxEntry(entries) == CHOOSE e \in entries : \A d \in entries : d[1] <= e[1]

\* MultiLog._get_cur(tags); a tags list is the set of its elements
_get_cur(dir, cur, sq, tags) ==
    LET rl == IF DOMAIN cur = {} THEN MultiLog_reload(dir, [cur |-> cur, seq |-> sq])
              ELSE [exc |-> "", cur |-> cur, seq |-> sq]
    IN  IF rl.exc # "" THEN RaiseDatum(rl.exc)
        ELSE IF DOMAIN rl.cur = {} THEN Return(NOTFOUND_DATUM)
        ELSE IF tags = None
             THEN Return(MaxEntry({rl.cur[t] : t \in DOMAIN rl.cur})[2])
        ELSE IF \E t \in tags[1] : ~InCur(rl.cur, t) THEN RaiseDatum("KeyError")
        ELSE IF tags[1] = {} THEN RaiseDatum("ValueError")
        ELSE Return(MaxEntry({rl.cur[t.name] : t \in tags[1]})[2])

\* the scan of one file in _get_history: skip lower sequences, take the data
\* of the line whose sequence is seqno, give up at the first higher one
RECURSIVE ScanFor(_, _)
ScanFor(lines, seqno) ==
    IF lines = << >> THEN None
    ELSE LET rec == MultiLog_segfile_reader(Head(lines))
         IN  IF rec[1] < seqno THEN ScanFor(Tail(lines), seqno)
             ELSE IF rec[1] = seqno THEN Some(rec[3])
             ELSE None

\* MultiLog._get_history(tags, seqno)
_get_history(dir, tags, seqno) ==
    LET msgtags == IF tags = None THEN {Str(t) : t \in _tags(dir)} ELSE tags[1]
        found   == {t \in msgtags :
                       /\ _segfile_for_seqno(dir, t, Some(seqno)) # None
                       /\ ScanFor(dir[_segfile_for_seqno(dir, t, Some(seqno))], seqno) # None}
    IN  IF found = {} THEN NOTFOUND_DATUM
        ELSE LET t == CHOOSE x \in found : TRUE
             IN  ScanFor(dir[_segfile_for_seqno(dir, t, Some(seqno))], seqno)[1]

\* MultiLog.get(tags, seqno) on a given directory, tail cache and counter
MultiLog_get_on(dir, cur, sq, tags, seqno) ==
    LET msgtags == IF tags = None THEN Some({Str(t) : t \in _tags(dir)}) ELSE tags
    IN  IF seqno = None THEN _get_cur(dir, cur, sq, msgtags)
        ELSE IF seqno[1] < 1 THEN RaiseDatum("ValueError")
        ELSE Return(_get_history(dir, msgtags, seqno[1]))

\* MultiLog.get(tags, seqno) in the current state
MultiLog_get(tags, seqno) == MultiLog_get_on(ml_files, _cur, ml_seq, tags, seqno)

\* a regular expression given as tags, by the set of strings it matches fully
Regex(matching) == <<"regex", matching>>

\* the tags read() works on
read_msgtags(dir, tags) ==
    IF tags = None THEN {Str(t) : t \in _tags(dir)}
    ELSE IF Len(tags) = 2 THEN {Str(t) : t \in _tags(dir) \cap tags[2]}
    ELSE tags[1]

\* the record with the lowest seqno among the heads of the open files
MinLatest(latest) ==
    CHOOSE t \in DOMAIN latest : \A u \in DOMAIN latest :
        MultiLog_segfile_reader(latest[t][1])[1] <= MultiLog_segfile_reader(latest[u][1])[1]

\* the inner loop of MultiLog.read: while a file is open, yield the lowest
\* head record and advance its file (latest: tag -> lines not yet yielded)
RECURSIVE MultiLog_read_segment(_, _)
MultiLog_read_segment(latest, out) ==
    IF DOMAIN latest = {} THEN out
    ELSE LET t    == MinLatest(latest)
             rec  == MultiLog_segfile_reader(latest[t][1])
             rest == Tail(latest[t])
         IN  MultiLog_read_segment(
                 IF rest = << >> THEN Without(latest, t) ELSE [latest EXCEPT ![t] = rest],
                 Append(out, rec))

\* the outer loop of MultiLog.read over the segments
RECURSIVE MultiLog_read_segments(_, _, _, _, _)
MultiLog_read_segments(dir, sq, msgtags, curseg, out) ==
    IF ~(curseg < sq \div segment_size) THEN out
    ELSE LET existing == {t \in msgtags : MultiLog_segfile_for_seg(t, curseg) \in DOMAIN dir}
             latest   == [tag \in {format(t) : t \in existing} |->
                             dir[<<tag, Fmt09(curseg)>>]]
         IN  MultiLog_read_segments(dir, sq, msgtags, curseg + 1,
                                    MultiLog_read_segment(latest, out))

\* MultiLog.read(start_seqno, tags) run to exhaustion with no put in between:
\* the tuples (seqno, tag, data) it yields
MultiLog_read_on(dir, sq, start_seqno, tags) ==
    MultiLog_read_segments(dir, sq, read_msgtags(dir, tags),
                           start_seqno \div segment_size, << >>)

MultiLog_read(start_seqno, tags) == MultiLog_read_on(ml_files, ml_seq, start_seqno, tags)

\* ---------------------------------------------------------------- MultiLog: reopening
\* close, then MultiLog.__init__ on the same directory: _cur = {}, _seq = 0,
\* then reload(); an exception of reload leaves no MultiLog to work with
MultiLog_reopen ==
    /\ ml_reopens < MaxReopens
    /\ ml_reopens' = ml_reopens + 1
    /\ ml_closed' = <<_cur, ml_seq>>
    /\ LET r == MultiLog_reload(ml_files, [cur |-> << >>, seq |-> 0])
       IN  /\ _cur' = r.cur
           /\ ml_seq' = r.seq
           /\ ml_exc' = r.exc
    /\ UNCHANGED <<ml_files, ml_ret, ml_hist, events>>
    /\ UNCHANGED <<skvars, thvars, restvars>>

\* ================================================================ SerializingMultiLog
\* the classes of the events, and the events: an instance of a dict subclass
\* holding {"data": n}
Classes == {"MyTestClassA", "MyTestClassB"}

SerEvents == {[cls |-> c, data |-> n] : c \in Classes, n \in 1..2}

\* tag arguments of SerializingMultiLog.put: omitted, or a string
SerTagArgs == {None, Some("MyTestClassA")}

DigitChars == <<"0", "1", "2", "3", "4", "5", "6", "7", "8", "9">>

\* the serializer, json.dumps: the text {"data": n}; the class is not part of it
serialize(event) == <<"{\"data\": ", DigitChars[event.data + 1], "}">>

\* the white space json.loads skips at the end of the text
RECURSIVE StripWs(_)
StripWs(text) ==
    IF text # << >> /\ text[Len(text)] = "\n"
    THEN StripWs(SubSeq(text, 1, Len(text) - 1)) ELSE text

\* the deserializer, json.loads: the plain dict the text denotes
deserialize(text) ==
    LET body == StripWs(text)
    IN  IF /\ Len(body) = 3
           /\ body[1] = "{\"data\": "
           /\ body[3] = "}"
           /\ \E n \in 0..9 : DigitChars[n + 1] = body[2]
        THEN [k \in {"data"} |-> CHOOSE n \in 0..9 : DigitChars[n + 1] = body[2]]
        ELSE [k \in {"JSONDecodeError"} |-> NOTFOUND]

\* SerializingMultiLog.put(event, tag): the tag defaults to the name of the
\* event's class, and the serialized event goes to MultiLog.put
SerializingMultiLog_put(event, tag) ==
    /\ ml_exc = ""
    /\ Len(ml_hist) < MaxPuts
    /\ LET t    == IF tag = None THEN event.cls ELSE tag[1]
           data == serialize(event)
           r    == put_on([files |-> ml_files, cur |-> _cur, seq |-> ml_seq], data, t)
       IN  /\ ml_files' = r.files
           /\ _cur' = r.cur
           /\ ml_seq' = r.seq
           /\ ml_ret' = r.ret
           /\ ml_hist' = Append(ml_hist, <<r.seq, t, data>>)
    /\ events' = Append(events, <<event, tag>>)
    /\ UNCHANGED <<ml_reopens, ml_closed, ml_exc>>
    /\ UNCHANGED <<skvars, thvars, restvars>>

\* a translation that leaves the list as it was given
_xlate_tags_as_given(taglist) == taglist

\* SerializingMultiLog._xlate_tags: strings stay, other objects give their __name__
_xlate_tags(taglist) ==
    IF taglist = None THEN None ELSE Some({Str(t.name) : t \in taglist[1]})

\* SerializingMultiLog.get(tags, seqno); NOTFOUND is NOTFOUND_FRAME here
SerializingMultiLog_get_on(dir, cur, sq, tags, seqno) ==
    LET msgtags == _xlate_tags(tags)
        result  == MultiLog_get_on(dir, cur, sq, msgtags, seqno)
    IN  IF result.exc # "" THEN [exc |-> result.exc, val |-> NOTFOUND_FRAME]
        ELSE IF result.val = NOTFOUND_DATUM THEN Return(NOTFOUND_FRAME)
        ELSE Return(deserialize(result.val))

SerializingMultiLog_get(tags, seqno) == SerializingMultiLog_get_on(ml_files, _cur, ml_seq, tags, seqno)

\* SerializingMultiLog.read(start_seqno, tags, with_tags) run to exhaustion:
\* msgtags is computed, and MultiLog.read is given tags
SerializingMultiLog_read_on(dir, sq, start_seqno, tags, with_tags) ==
    LET msgtags == _xlate_tags(tags)
        recs    == MultiLog_read_on(dir, sq, start_seqno, tags)
    IN  [i \in DOMAIN recs |->
            IF with_tags THEN <<recs[i][1], recs[i][2], deserialize(recs[i][3])>>
            ELSE <<recs[i][1], deserialize(recs[i][3])>>]

SerializingMultiLog_read(start_seqno, tags, with_tags) == SerializingMultiLog_read_on(ml_files, ml_seq, start_seqno, tags, with_tags)

\* ================================================================ ThreadSafeLogMixin over StateKeeper
\* the threads that call into one object of class (ThreadSafeLogMixin, StateKeeper)
Threads == {"t1", "t2"}

\* the most calls one thread makes
MaxCalls == 2

\* the kvdict the threads write
ThreadKV == [k \in {"x"} |-> 1]

\* locals of a thread that is in no call
NoCall == [ns |-> "", tmp |-> 0, seqno |-> 0]

\* StateKeeper.write, entered without taking the lock (the mixin wraps put
\* only); first half of self._seq += 1: the counter is loaded
write_load(t, ns) ==
    /\ th_pc[t] = "idle"
    /\ th_calls[t] < MaxCalls
    /\ th_calls' = [th_calls EXCEPT ![t] = @ + 1]
    /\ th_local' = [th_local EXCEPT ![t] = [ns |-> ns, tmp |-> _seq, seqno |-> 0]]
    /\ th_pc' = [th_pc EXCEPT ![t] = "loaded"]
    /\ UNCHANGED <<writelock, th_ret>>
    /\ UNCHANGED <<skvars, mlvars, restvars>>

\* second half of self._seq += 1: the loaded value plus one is stored
write_store(t) ==
    /\ th_pc[t] = "loaded"
    /\ _seq' = th_local[t].tmp + 1
    /\ th_pc' = [th_pc EXCEPT ![t] = "stored"]
    /\ UNCHANGED <<files, _state, ret, hist, reopens, closed, lastOp>>
    /\ UNCHANGED <<writelock, th_local, th_ret, th_calls>>
    /\ UNCHANGED <<mlvars, restvars>>

\* the argument self._seq of the call of _write is evaluated
write_arg(t) ==
    /\ th_pc[t] = "stored"
    /\ th_local' = [th_local EXCEPT ![t].seqno = _seq]
    /\ th_pc' = [th_pc EXCEPT ![t] = "called"]
    /\ UNCHANGED <<writelock, th_ret, th_calls>>
    /\ UNCHANGED <<skvars, mlvars, restvars>>

\* self._write(namespace, seqno, kvdict) runs
write_write(t) ==
    /\ th_pc[t] = "called"
    /\ LET st == _write([files |-> files, cache |-> _state],
                        th_local[t].ns, th_local[t].seqno, ThreadKV)
       IN  /\ files' = st.files
           /\ _state' = st.cache
    /\ th_pc' = [th_pc EXCEPT ![t] = "written"]
    /\ UNCHANGED <<_seq, ret, hist, reopens, closed, lastOp>>
    /\ UNCHANGED <<writelock, th_local, th_ret, th_calls>>
    /\ UNCHANGED <<mlvars, restvars>>

\* return self._seq
write_return(t) ==
    /\ th_pc[t] = "written"
    /\ th_ret' = [th_ret EXCEPT ![t] = Append(@, Return(_seq))]
    /\ th_pc' = [th_pc EXCEPT ![t] = "idle"]
    /\ th_local' = [th_local EXCEPT ![t] = NoCall]
    /\ UNCHANGED <<writelock, th_calls>>
    /\ UNCHANGED <<skvars, mlvars, restvars>>

\* ThreadSafeLogMixin.put: with self.writelock, entered when the lock is free
put_acquire(t) ==
    /\ th_pc[t] = "idle"
    /\ th_calls[t] < MaxCalls
    /\ writelock = None
    /\ writelock' = Some(t)
    /\ th_calls' = [th_calls EXCEPT ![t] = @ + 1]
    /\ th_pc' = [th_pc EXCEPT ![t] = "put"]
    /\ UNCHANGED <<th_local, th_ret>>
    /\ UNCHANGED <<skvars, mlvars, restvars>>

\* return super().put(...): StateKeeper has no put, so the lookup raises and
\* the with statement releases the lock
put_super(t) ==
    /\ th_pc[t] = "put"
    /\ writelock' = None
    /\ th_ret' = [th_ret EXCEPT ![t] = Append(@, Raise("AttributeError"))]
    /\ th_pc' = [th_pc EXCEPT ![t] = "idle"]
    /\ UNCHANGED <<th_local, th_calls>>
    /\ UNCHANGED <<skvars, mlvars, restvars>>

\* ================================================================ MonoLog
\* payload strings given to MonoLog.put
MonoPayloads == {<<"p1">>, <<"p2">>, <<"p3">>}

\* the default basename
basename == "log"

\* what a function returns that ends without a return statement
NONE_DATUM == <<"None">>

\* f"{seqno!s} {data}\n"
MonoLog_dataline(seqno, data) == [seqno |-> seqno, jdata |-> data \o <<"\n">>]

\* MonoLog._segfile_reader: line.split(' ', 1), the second part being the
\* rest of the line as it stands in the file
MonoLog_segfile_reader(line) == <<line.seqno, line.jdata>>

\* MonoLog._segfiles: glob of '{self.name}.*', a plain string, so the files
\* it finds are those whose name starts with the text {self.name}
MonoLog_segfiles(dir) == {f \in DOMAIN dir : f[1] = "{self.name}"}

\* MonoLog._segfile_for_seg: f"{self.name}.{seg:09}"
MonoLog_segfile_for_seg(seg) == <<basename, Fmt09(seg)>>

\* MonoLog._segfile_for_seq: as StateKeeper._segfile_for_seq
MonoLog_segfile_for_seq(dir, s) ==
    LET seg == IF s = None THEN None ELSE Some(s[1] \div segment_size)
        fs    == MonoLog_segfiles(dir)
        exact == {f \in fs : seg # None /\ fileseg(f) = seg[1]}
        cands == {f \in fs : seg = None \/ fileseg(f) < seg[1]}
    IN  IF exact # {} THEN CHOOSE f \in exact : TRUE
        ELSE IF cands = {} THEN None
        ELSE CHOOSE f \in cands : \A g \in cands : fileseg(g) <= fileseg(f)

\* MonoLog._write on mono = [files, cur]
MonoLog_write(mono, seqno, data) ==
    LET segfile == MonoLog_segfile_for_seg(seqno \div segment_size)
        line    == MonoLog_dataline(seqno, data)
        lines   == IF segfile \in DOMAIN mono.files
                   THEN Append(mono.files[segfile], line) ELSE <<line>>
    IN  [ files |-> [f \in (DOMAIN mono.files) \cup {segfile} |->
                        IF f = segfile THEN lines ELSE mono.files[f]],
          cur   |-> data ]

\* MonoLog.put(event); the lock is contextlib.nullcontext() when none is given
MonoLog_put(event) ==
    /\ Len(mono_hist) < MaxPuts
    /\ LET seq == mono_seq + 1
           w   == MonoLog_write([files |-> mono_files, cur |-> mono_cur], seq, event)
       IN  /\ mono_seq' = seq
           /\ mono_files' = w.files
           /\ mono_cur' = w.cur
           /\ mono_ret' = seq
           /\ mono_hist' = Append(mono_hist, <<seq, event>>)
    /\ UNCHANGED <<skvars, mlvars, thvars, callvars, bldvars, sfvars, auxvars>>

\* MonoLog.reload on mono = [cur, seq]: nothing changes when no file is
\* found; a file found is handed to _segfile_reader as a path, not opened,
\* and iterating over it raises
MonoLog_reload(dir, mono) ==
    IF MonoLog_segfile_for_seq(dir, None) = None
    THEN [exc |-> "", cur |-> mono.cur, seq |-> mono.seq]
    ELSE [exc |-> "TypeError", cur |-> mono.cur, seq |-> mono.seq]

\* MonoLog._read_cur: the result, and _cur and _seq afterwards
MonoLog_read_cur(dir, cur, sq) ==
    LET rl == IF cur = NOTFOUND_DATUM THEN MonoLog_reload(dir, [cur |-> cur, seq |-> sq])
              ELSE [exc |-> "", cur |-> cur, seq |-> sq]
    IN  [exc |-> rl.exc, val |-> IF rl.exc = "" THEN rl.cur ELSE NOTFOUND_DATUM,
         cur |-> rl.cur, seq |-> rl.seq]

\* MonoLog._read_history: the loop unpacks three values from the two that
\* _segfile_reader yields, and a loop that ends returns nothing
MonoLog_read_history(dir, cur, sq, seqno) ==
    IF seqno = sq THEN MonoLog_read_cur(dir, cur, sq)
    ELSE LET segfile == MonoLog_segfile_for_seq(dir, Some(seqno))
         IN  [ exc |-> IF segfile # None /\ dir[segfile] # << >> THEN "ValueError" ELSE "",
               val |-> IF segfile = None THEN NOTFOUND_DATUM
                       ELSE IF dir[segfile] # << >> THEN NOTFOUND_DATUM ELSE NONE_DATUM,
               cur |-> cur, seq |-> sq ]

\* MonoLog.get(seqno) on a given directory, cache and counter: the result,
\* and _cur and _seq afterwards
MonoLog_get_on(dir, cur, sq, seqno) ==
    IF seqno = None THEN MonoLog_read_cur(dir, cur, sq)
    ELSE IF seqno[1] < 1
         THEN [exc |-> "ValueError", val |-> NOTFOUND_DATUM, cur |-> cur, seq |-> sq]
    ELSE MonoLog_read_history(dir, cur, sq, seqno[1])

MonoLog_get(seqno) == MonoLog_get_on(mono_files, mono_cur, mono_seq, seqno)

\* the records of some lines, those below a sequence number left out
RECURSIVE RecordsFrom(_, _)
RecordsFrom(lines, lowest) ==
    IF lines = << >> THEN << >>
    ELSE LET rec == MonoLog_segfile_reader(Head(lines))
         IN  (IF rec[1] < lowest THEN << >> ELSE <<rec>>) \o RecordsFrom(Tail(lines), lowest)

\* the later segments of MonoLog.read
RECURSIVE MonoLog_read_later(_, _, _)
MonoLog_read_later(dir, sq, curseg) ==
    IF ~(curseg < sq \div segment_size) THEN << >>
    ELSE LET segfile == MonoLog_segfile_for_seg(curseg + 1)
         IN  (IF segfile \in DOMAIN dir THEN RecordsFrom(dir[segfile], 0) ELSE << >>)
                 \o MonoLog_read_later(dir, sq, curseg + 1)

\* MonoLog.read(start_seqno) run to exhaustion with no put in between
MonoLog_read_on(dir, sq, start_seqno) ==
    LET segfile == MonoLog_segfile_for_seq(dir, Some(start_seqno))
    IN  IF segfile = None THEN << <<start_seqno, NOTFOUND_DATUM>> >>
        ELSE RecordsFrom(dir[segfile], start_seqno)
                 \o MonoLog_read_later(dir, sq, start_seqno \div segment_size)

MonoLog_read(start_seqno) == MonoLog_read_on(mono_files, mono_seq, start_seqno)

\* ================================================================ calls on the engines
\* the three engines
Engines == {"StateKeeper", "MultiLog", "MonoLog"}

\* no engine constructed with a segment size of the caller's yet
NoCtor == [engine |-> "", size |-> 0, exc |-> "", wrote |-> FALSE, wexc |-> "", seg |-> 0]

\* no selection made yet
NoSelection == [e \in {"StateKeeper", "MultiLog"} |-> None]

\* the most writes and puts, all engines together, where the engines run
\* side by side
MaxCallOps == 3

\* the writes and puts made so far, all engines together
OpsDone == Len(hist) + Len(ml_hist) + Len(mono_hist)

\* seqno arguments of the get calls
GetSeqs == {None, Some(-1), Some(0), Some(1)}

\* a get that keeps the state it read from history in the cache
StateKeeper_get_caching(ns, key, seqno) ==
    /\ got' = [got EXCEPT !["StateKeeper"] = get_on(files, _state, _seq, ns, key, seqno).exc]
    /\ _state' =
          IF /\ seqno # None /\ seqno[1] >= 1 /\ seqno[1] # _seq
             /\ _segfile_for_seq(files, ns, seqno) # None
          THEN [n \in (DOMAIN _state) \cup {ns} |->
                   IF n = ns
                   THEN <<seqno[1], FoldUpTo(files[_segfile_for_seq(files, ns, seqno)],
                                             1, seqno[1], EmptyDict)>>
                   ELSE _state[n]]
          ELSE _state
    /\ UNCHANGED <<files, _seq, ret, hist, reopens, closed, lastOp>>
    /\ UNCHANGED ctor
    /\ UNCHANGED <<mlvars, thvars, monovars, bldvars, sfvars, auxvars>>

\* a call of StateKeeper.get: no statement on its paths assigns to the
\* counter, the cache or a file (reload returns what it found)
StateKeeper_get(ns, key, seqno) ==
    /\ got' = [got EXCEPT !["StateKeeper"] = get_on(files, _state, _seq, ns, key, seqno).exc]
    /\ UNCHANGED ctor
    /\ UNCHANGED <<skvars, mlvars, thvars, monovars, bldvars, sfvars, auxvars>>

\* _cur and _seq after MultiLog.get(tags, seqno): _get_cur calls reload,
\* which assigns both, when the tail cache is empty
MultiLog_get_after(dir, cur, sq, tags, seqno) ==
    IF seqno = None /\ DOMAIN cur = {}
    THEN LET r == MultiLog_reload(dir, [cur |-> cur, seq |-> sq])
         IN  [cur |-> r.cur, seq |-> r.seq]
    ELSE [cur |-> cur, seq |-> sq]

\* a call of MultiLog.get
MultiLog_get_call(tags, seqno) ==
    /\ got' = [got EXCEPT !["MultiLog"] = MultiLog_get_on(ml_files, _cur, ml_seq, tags, seqno).exc]
    /\ LET after == MultiLog_get_after(ml_files, _cur, ml_seq, tags, seqno)
       IN  /\ _cur' = after.cur
           /\ ml_seq' = after.seq
    /\ UNCHANGED <<ml_files, ml_ret, ml_hist, events, ml_reopens, ml_closed, ml_exc>>
    /\ UNCHANGED ctor
    /\ UNCHANGED <<skvars, thvars, monovars, bldvars, sfvars, auxvars>>

\* a call of MonoLog.get
MonoLog_get_call(seqno) ==
    /\ LET r == MonoLog_get_on(mono_files, mono_cur, mono_seq, seqno)
       IN  /\ got' = [got EXCEPT !["MonoLog"] = r.exc]
           /\ mono_cur' = r.cur
           /\ mono_seq' = r.seq
    /\ UNCHANGED <<mono_files, mono_ret, mono_hist>>
    /\ UNCHANGED ctor
    /\ UNCHANGED <<skvars, mlvars, thvars, bldvars, sfvars, auxvars>>

\* ================================================================ a suspended replay
\* start_seqno and key arguments of the read_ns calls
IterStarts == {1, 2}
IterKeys == {None, Some("x")}

\* no generator made yet
NoIter ==
    [pc |-> "none", ns |-> "a", start |-> 0, key |-> None, seq0 |-> 0,
     file |-> None, i |-> 0, st |-> EmptyDict, sentfirst |-> FALSE,
     curseg |-> 0, nfirst |-> 0, out |-> << >>, at |-> << >>]

\* The body of read_ns from where the generator g stands to its next yield
\* or to its end, on the directory and the counter as they are now.
\* g.pc is the statement it resumes at: "created" the top of the function,
\* "notfound" and "afterfirst" the yields outside the first loop, "first" the
\* top of the first loop (line g.i of g.file next), "firstB" the yield of the
\* initial value inside it, "tailtest" the test of the while loop, "tail"
\* the top of the loop over a later file, "done" the end.  g.out are the
\* frames yielded so far, g.nfirst how many of them came before the while
\* loop, g.seq0 the counter when the generator was made, g.at the counter
\* at each next() so far.
RECURSIVE read_ns_run(_, _, _)
read_ns_run(g, dir, sq) ==
    LET k      == g.key[1]
        line   == _segfile_reader(dir[g.file][g.i])
        towhile == [g EXCEPT !.pc = "tailtest",
                             !.curseg = g.start \div segment_size,
                             !.nfirst = Len(g.out)]
        \* if key in data: yield seq, data[key], then the next line
        ifkey(g1) ==
            IF k \in DOMAIN line[2]
            THEN [g1 EXCEPT !.pc = "first", !.i = g.i + 1,
                            !.out = Append(g.out, <<line[1], line[2][k]>>)]
            ELSE read_ns_run([g1 EXCEPT !.pc = "first", !.i = g.i + 1], dir, sq)
    IN
    CASE g.pc = "created" ->
            LET segfile == _segfile_for_seq(dir, g.ns, Some(g.start))
            IN  IF segfile = None
                THEN [g EXCEPT !.pc = "notfound",
                               !.out = Append(g.out, <<g.start,
                                   IF g.key = None THEN NOTFOUND_FRAME ELSE NOTFOUND>>)]
                ELSE read_ns_run(
                        [g EXCEPT !.pc = "first", !.file = segfile, !.i = 1,
                                  !.st = IF g.key = None THEN EmptyDict
                                         ELSE [kk \in {k} |-> NOTFOUND],
                                  !.sentfirst = FALSE], dir, sq)
      [] g.pc \in {"notfound", "afterfirst"} -> read_ns_run(towhile, dir, sq)
      [] g.pc = "first" ->
            IF g.i > Len(dir[g.file])
            THEN IF g.sentfirst THEN read_ns_run(towhile, dir, sq)
                 ELSE [g EXCEPT !.pc = "afterfirst",
                                !.out = Append(g.out, <<g.start,
                                    IF g.key = None THEN g.st ELSE g.st[k]>>)]
            ELSE LET st1 == Update(g.st, line[2])
                 IN  IF g.key = None
                     THEN IF line[1] >= g.start
                          THEN [g EXCEPT !.i = g.i + 1, !.st = st1,
                                         !.out = Append(g.out, <<line[1], st1>>)]
                          ELSE read_ns_run([g EXCEPT !.i = g.i + 1, !.st = st1], dir, sq)
                     ELSE IF g.sentfirst THEN ifkey([g EXCEPT !.st = st1])
                          ELSE IF line[1] >= g.start
                               THEN [g EXCEPT !.pc = "firstB", !.st = st1,
                                              !.out = Append(g.out, <<g.start, st1[k]>>)]
                               ELSE ifkey([g EXCEPT !.st =
                                        [st1 EXCEPT ![k] = DictGet(line[2], k, NOTFOUND)]])
      [] g.pc = "firstB" ->
            ifkey([g EXCEPT !.sentfirst = TRUE,
                            !.st = [g.st EXCEPT ![k] = DictGet(line[2], k, NOTFOUND)]])
      [] g.pc = "tailtest" ->
            IF g.curseg < lastseg(sq)
            THEN LET segfile == _segfile_for_seg(g.ns, g.curseg + 1)
                 IN  IF segfile \notin DOMAIN dir
                     THEN read_ns_run([g EXCEPT !.curseg = g.curseg + 1], dir, sq)
                     ELSE read_ns_run([g EXCEPT !.curseg = g.curseg + 1, !.pc = "tail",
                                                !.file = segfile, !.i = 1], dir, sq)
            ELSE [g EXCEPT !.pc = "done"]
      [] g.pc = "tail" ->
            IF g.i > Len(dir[g.file])
            THEN read_ns_run([g EXCEPT !.pc = "tailtest"], dir, sq)
            ELSE IF g.key = None
                 THEN [g EXCEPT !.i = g.i + 1, !.out = Append(g.out, <<line[1], line[2]>>)]
                 ELSE IF k \in DOMAIN line[2]
                      THEN [g EXCEPT !.i = g.i + 1,
                                     !.out = Append(g.out, <<line[1], line[2][k]>>)]
                      ELSE read_ns_run([g EXCEPT !.i = g.i + 1], dir, sq)
      [] OTHER -> g

\* read_ns(namespace, start_seqno, key) called: a generator is made, none of
\* its body runs yet
read_ns_call(ns, start_seqno, key) ==
    /\ gen.pc = "none"
    /\ gen' = [NoIter EXCEPT !.pc = "created", !.ns = ns, !.start = start_seqno,
                            !.key = key, !.seq0 = _seq]
    /\ UNCHANGED <<skvars, mlvars, thvars, monovars, callvars, bldvars, sfvars, lockvars>>

\* next() on a generator whose last segment is the one of the counter at the
\* time the generator was made
read_ns_next_fixed ==
    /\ gen.pc \notin {"none", "done"}
    /\ gen' = [read_ns_run(gen, files, gen.seq0) EXCEPT !.at = Append(gen.at, _seq)]
    /\ UNCHANGED <<skvars, mlvars, thvars, monovars, callvars, bldvars, sfvars, lockvars>>

\* next() on the generator: it runs to its next yield or to its end
read_ns_next ==
    /\ gen.pc \notin {"none", "done"}
    /\ gen' = [read_ns_run(gen, files, _seq) EXCEPT !.at = Append(gen.at, _seq)]
    /\ UNCHANGED <<skvars, mlvars, thvars, monovars, callvars, bldvars, sfvars, lockvars>>

\* read(start_seqno, namespaces, key) run to exhaustion: its helpers and its
\* loops assign to locals only
StateKeeper_read(start_seqno, nsarg, key) ==
    /\ got' = [got EXCEPT !["StateKeeper"] = read_on(files, _seq, start_seqno, nsarg, key).exc]
    /\ UNCHANGED ctor
    /\ UNCHANGED <<skvars, mlvars, thvars, monovars, bldvars, sfvars, auxvars>>

\* ================================================================ a write that fails
\* StateKeeper.write when segfile.open(mode) in _write raises OSError: the
\* counter was incremented before _write was called, nothing was written and
\* the cache update was not reached
write_fail(ns, kvdict) ==
    /\ Len(hist) < MaxWrites
    /\ _seq < MaxWrites
    /\ _seq' = _seq + 1
    /\ lastOp' = "write_failed"
    /\ UNCHANGED <<files, _state, ret, hist, reopens, closed>>
    /\ UNCHANGED <<mlvars, thvars, restvars>>

\* MultiLog.put when segfile.open(mode) in _write raises OSError: seq and
\* self._seq were assigned before _write was called
put_fail(event, tag) ==
    /\ ml_exc = ""
    /\ Len(ml_hist) < MaxPuts
    /\ ml_seq < MaxPuts
    /\ ml_seq' = ml_seq + 1
    /\ UNCHANGED <<ml_files, _cur, ml_ret, ml_hist, events, ml_reopens, ml_closed, ml_exc>>
    /\ UNCHANGED <<skvars, thvars, restvars>>

\* ================================================================ threads on MultiLog and MonoLog
\* the payload the threads put
ThreadEvent == <<"v1">>

\* MultiLog.put called on a bare MultiLog: no lock is taken
MultiLog_put_call(t, tag) ==
    /\ th_pc[t] = "idle"
    /\ th_calls[t] < MaxCalls
    /\ th_calls' = [th_calls EXCEPT ![t] = @ + 1]
    /\ th_local' = [th_local EXCEPT ![t] = [ns |-> tag, tmp |-> 0, seqno |-> 0]]
    /\ th_pc' = [th_pc EXCEPT ![t] = "entered"]
    /\ UNCHANGED <<writelock, th_ret>>
    /\ UNCHANGED <<skvars, mlvars, restvars>>

\* a put of the mixin that goes on to MultiLog.put without taking the lock
ThreadSafeLogMixin_put_no_lock(t, tag) == MultiLog_put_call(t, tag)

\* ThreadSafeLogMixin.put on an object of class (ThreadSafeLogMixin,
\* MultiLog): with self.writelock, entered when the lock is free
ThreadSafeLogMixin_put(t, tag) ==
    /\ th_pc[t] = "idle"
    /\ th_calls[t] < MaxCalls
    /\ writelock = None
    /\ writelock' = Some(t)
    /\ th_calls' = [th_calls EXCEPT ![t] = @ + 1]
    /\ th_local' = [th_local EXCEPT ![t] = [ns |-> tag, tmp |-> 0, seqno |-> 0]]
    /\ th_pc' = [th_pc EXCEPT ![t] = "entered"]
    /\ UNCHANGED th_ret
    /\ UNCHANGED <<skvars, mlvars, restvars>>

\* seq = self._seq = self._seq + 1, first half: the counter is loaded
MultiLog_put_load(t) ==
    /\ th_pc[t] = "entered"
    /\ th_local' = [th_local EXCEPT ![t].tmp = ml_seq]
    /\ th_pc' = [th_pc EXCEPT ![t] = "loaded"]
    /\ UNCHANGED <<writelock, th_ret, th_calls>>
    /\ UNCHANGED <<skvars, mlvars, restvars>>

\* an increment that cannot be interleaved: the counter is read again when
\* it is stored
MultiLog_put_store_atomic(t) ==
    /\ th_pc[t] = "loaded"
    /\ ml_seq' = ml_seq + 1
    /\ th_local' = [th_local EXCEPT ![t].seqno = ml_seq + 1]
    /\ th_pc' = [th_pc EXCEPT ![t] = "stored"]
    /\ UNCHANGED <<ml_files, _cur, ml_ret, ml_hist, events, ml_reopens, ml_closed, ml_exc>>
    /\ UNCHANGED <<writelock, th_ret, th_calls>>
    /\ UNCHANGED <<skvars, restvars>>

\* second half: the loaded value plus one goes to seq and to self._seq
MultiLog_put_store(t) ==
    /\ th_pc[t] = "loaded"
    /\ ml_seq' = th_local[t].tmp + 1
    /\ th_local' = [th_local EXCEPT ![t].seqno = th_local[t].tmp + 1]
    /\ th_pc' = [th_pc EXCEPT ![t] = "stored"]
    /\ UNCHANGED <<ml_files, _cur, ml_ret, ml_hist, events, ml_reopens, ml_closed, ml_exc>>
    /\ UNCHANGED <<writelock, th_ret, th_calls>>
    /\ UNCHANGED <<skvars, restvars>>

\* self._write(seq, tag, event)
MultiLog_put_write(t) ==
    /\ th_pc[t] = "stored"
    /\ LET w == MultiLog_write([files |-> ml_files, cur |-> _cur],
                               th_local[t].seqno, th_local[t].ns, ThreadEvent)
       IN  /\ ml_files' = w.files
           /\ _cur' = w.cur
    /\ ml_hist' = Append(ml_hist, <<th_local[t].seqno, th_local[t].ns, ThreadEvent>>)
    /\ th_pc' = [th_pc EXCEPT ![t] = "written"]
    /\ UNCHANGED <<ml_seq, ml_ret, events, ml_reopens, ml_closed, ml_exc>>
    /\ UNCHANGED <<writelock, th_local, th_ret, th_calls>>
    /\ UNCHANGED <<skvars, restvars>>

\* return seq; the with statement of the mixin, if the call came through
\* it, releases the lock
MultiLog_put_return(t) ==
    /\ th_pc[t] = "written"
    /\ ml_ret' = th_local[t].seqno
    /\ th_ret' = [th_ret EXCEPT ![t] = Append(@, Return(th_local[t].seqno))]
    /\ writelock' = IF writelock = Some(t) THEN None ELSE writelock
    /\ th_pc' = [th_pc EXCEPT ![t] = "idle"]
    /\ th_local' = [th_local EXCEPT ![t] = NoCall]
    /\ UNCHANGED <<ml_files, _cur, ml_seq, ml_hist, events, ml_reopens, ml_closed, ml_exc>>
    /\ UNCHANGED th_calls
    /\ UNCHANGED <<skvars, restvars>>

\* ThreadSafeLogMixin.put on an object of class (ThreadSafeLogMixin,
\* MonoLog): with self.writelock, the lock that ThreadSafeLogMixin.__init__
\* stored over the one MonoLog.__init__ had set
ThreadSafeLogMixin_MonoLog_put(t) ==
    /\ mono_mixin
    /\ th_pc[t] = "idle"
    /\ th_calls[t] < MaxCalls
    /\ mono_lock = None
    /\ mono_lock' = Some(t)
    /\ th_calls' = [th_calls EXCEPT ![t] = @ + 1]
    /\ th_pc' = [th_pc EXCEPT ![t] = "mixin"]
    /\ UNCHANGED <<mono_mixin, itvars>>
    /\ UNCHANGED <<writelock, th_local, th_ret>>
    /\ UNCHANGED <<skvars, mlvars, monovars, callvars, bldvars, sfvars>>

\* MonoLog.put: with self.writelock, a threading.Lock (not reentrant) that
\* was passed to the constructor or stored by the mixin; the call comes from
\* the caller or from the put of the mixin
MonoLog_put_acquire(t) ==
    /\ IF mono_mixin THEN th_pc[t] = "mixin"
       ELSE th_pc[t] = "idle" /\ th_calls[t] < MaxCalls
    /\ mono_lock = None
    /\ mono_lock' = Some(t)
    /\ th_calls' = [th_calls EXCEPT ![t] = IF mono_mixin THEN @ ELSE @ + 1]
    /\ th_pc' = [th_pc EXCEPT ![t] = "m_entered"]
    /\ UNCHANGED <<mono_mixin, itvars>>
    /\ UNCHANGED <<writelock, th_local, th_ret>>
    /\ UNCHANGED <<skvars, mlvars, monovars, callvars, bldvars, sfvars>>

\* self._seq += 1, first half: the counter is loaded
MonoLog_put_load(t) ==
    /\ th_pc[t] = "m_entered"
    /\ th_local' = [th_local EXCEPT ![t] = [ns |-> "", tmp |-> mono_seq, seqno |-> 0]]
    /\ th_pc' = [th_pc EXCEPT ![t] = "m_loaded"]
    /\ UNCHANGED <<writelock, th_ret, th_calls>>
    /\ UNCHANGED <<skvars, mlvars, restvars>>

\* second half: the loaded value plus one is stored
MonoLog_put_store(t) ==
    /\ th_pc[t] = "m_loaded"
    /\ mono_seq' = th_local[t].tmp + 1
    /\ th_pc' = [th_pc EXCEPT ![t] = "m_stored"]
    /\ UNCHANGED <<mono_files, mono_cur, mono_ret, mono_hist>>
    /\ UNCHANGED <<writelock, th_local, th_ret, th_calls>>
    /\ UNCHANGED <<skvars, mlvars, callvars, bldvars, sfvars, auxvars>>

\* self._write(self._seq, event), the counter being read for the argument
MonoLog_put_write(t) ==
    /\ th_pc[t] = "m_stored"
    /\ LET w == MonoLog_write([files |-> mono_files, cur |-> mono_cur], mono_seq, ThreadEvent)
       IN  /\ mono_files' = w.files
           /\ mono_cur' = w.cur
    /\ mono_hist' = Append(mono_hist, <<mono_seq, ThreadEvent>>)
    /\ th_local' = [th_local EXCEPT ![t].seqno = mono_seq]
    /\ th_pc' = [th_pc EXCEPT ![t] = "m_written"]
    /\ UNCHANGED <<mono_seq, mono_ret>>
    /\ UNCHANGED <<writelock, th_ret, th_calls>>
    /\ UNCHANGED <<skvars, mlvars, callvars, bldvars, sfvars, auxvars>>

\* return self._seq; leaving the with statement releases the lock
MonoLog_put_return(t) ==
    /\ th_pc[t] = "m_written"
    /\ mono_ret' = mono_seq
    /\ th_ret' = [th_ret EXCEPT ![t] = Append(@, Return(mono_seq))]
    /\ mono_lock' = None
    /\ th_pc' = [th_pc EXCEPT ![t] = "idle"]
    /\ th_local' = [th_local EXCEPT ![t] = NoCall]
    /\ UNCHANGED <<mono_files, mono_cur, mono_seq, mono_hist>>
    /\ UNCHANGED <<mono_mixin, itvars>>
    /\ UNCHANGED <<writelock, th_calls>>
    /\ UNCHANGED <<skvars, mlvars, callvars, bldvars, sfvars>>

\* ---------------------------------------------------------------- MultiWrite
\* write calls made on one builder; MultiWrite.__init__ leaves ops empty, as
\* Init does
MaxBuilderWrites == 3

\* dict.get(ns, default) on a dict kept as its items in insertion order
ItemsGet(items, ns, default) ==
    IF \E i \in DOMAIN items : items[i][1] = ns
    THEN items[CHOOSE i \in DOMAIN items : items[i][1] = ns][2]
    ELSE default

\* d[ns] = v on a dict kept as its items: a known key keeps its place
ItemsPut(items, ns, v) ==
    IF \E i \in DOMAIN items : items[i][1] = ns
    THEN [i \in DOMAIN items |-> IF items[i][1] = ns THEN <<ns, v>> ELSE items[i]]
    ELSE Append(items, <<ns, v>>)

\* MultiWrite.write keeping only the last kvdict given for a partition
MultiWrite_write_replace(ns, kvdict) ==
    /\ Len(built) < MaxBuilderWrites
    /\ ops' = ItemsPut(ops, ns, kvdict)
    /\ built' = Append(built, <<ns, kvdict>>)
    /\ UNCHANGED <<skvars, mlvars, thvars, monovars, callvars, sfvars, auxvars>>

\* MultiWrite.write(namespace, kvdict)
MultiWrite_write(ns, kvdict) ==
    /\ Len(built) < MaxBuilderWrites
    /\ LET changes == Update(ItemsGet(ops, ns, EmptyDict), kvdict)
       IN  ops' = ItemsPut(ops, ns, changes)
    /\ built' = Append(built, <<ns, kvdict>>)
    /\ UNCHANGED <<skvars, mlvars, thvars, monovars, callvars, sfvars, auxvars>>

\* MultiWrite.execute(): the builder keeps its ops
MultiWrite_execute == multiwrite(ops)

\* ---------------------------------------------------------------- construction
\* segment sizes given to a constructor
CtorSizes == {-1, 0, segment_size}

\* Python's a // b for a >= 0 and b # 0
FloorDiv(a, b) == IF b > 0 THEN a \div b ELSE -((a + (-b) - 1) \div (-b))

\* the exception __init__(storage_dir, segment_size=size) of an engine ends
\* with on an empty directory: the size is stored as it is given, and reload
\* is the one call that could raise
ctor_exc(engine, size) ==
    IF engine = "StateKeeper" THEN (IF reload(<< >>, << >>) >= 0 THEN "" ELSE "IOError")
    ELSE IF engine = "MultiLog" THEN MultiLog_reload(<< >>, [cur |-> << >>, seq |-> 0]).exc
    ELSE MonoLog_reload(<< >>, [cur |-> NOTFOUND_DATUM, seq |-> 0]).exc

\* an engine is constructed on its empty directory with a segment size
construct(engine, size) ==
    /\ ctor = NoCtor
    /\ ctor' = [ engine |-> engine, size |-> size, exc |-> ctor_exc(engine, size),
                 wrote |-> FALSE, wexc |-> "", seg |-> 0 ]
    /\ UNCHANGED got
    /\ UNCHANGED <<skvars, mlvars, thvars, monovars, bldvars, sfvars, auxvars>>

\* the first write or put on an engine whose segment size is not positive:
\* _write divides sequence number 1 by the size to find the file
ctor_write ==
    /\ ctor.engine # ""
    /\ ctor.exc = ""
    /\ ctor.size <= 0
    /\ ~ctor.wrote
    /\ ctor' = [ctor EXCEPT !.wrote = TRUE,
                            !.wexc = IF ctor.size = 0 THEN "ZeroDivisionError" ELSE "",
                            !.seg = IF ctor.size = 0 THEN 0 ELSE FloorDiv(1, ctor.size)]
    /\ UNCHANGED got
    /\ UNCHANGED <<skvars, mlvars, thvars, monovars, bldvars, sfvars, auxvars>>

\* the engine was constructed with the segment size of this model
Constructed(engine) == ctor.engine = engine /\ ctor.exc = "" /\ ctor.size = segment_size

\* ---------------------------------------------------------------- segment file selection
\* the largest index of a file in a directory given to the selection
MaxIndex == 2

\* directories of empty segment files of the labels a and b
SfFiles == {<<l, Fmt09(g)>> : l \in Namespaces, g \in 0..MaxIndex}
SfDirs == UNION {[S -> {<< >>}] : S \in SUBSET SfFiles}

\* the seq argument: omitted, or a number whose segment is an index a file
\* can have or the one after
SfArgs == Namespaces \X ({None} \cup {Some(s) : s \in 0..((MaxIndex + 2) * segment_size - 1)})

\* the orders in which a glob can yield the files S
Orders(S) ==
    {o \in [1..Cardinality(S) -> S] : \A i, j \in 1..Cardinality(S) : i # j => o[i] # o[j]}

\* the loop of _segfile_for_seq and of _segfile_for_seqno over the files as
\* the glob yields them; biggest is <<index, file>>
RECURSIVE segfile_loop(_, _, _)
segfile_loop(order, seg, biggest) ==
    IF order = << >> THEN biggest[2]
    ELSE LET f == Head(order)
         IN  IF seg # None /\ seg[1] = fileseg(f) THEN f
             ELSE IF seg # None /\ fileseg(f) > seg[1]
                  THEN segfile_loop(Tail(order), seg, biggest)
             ELSE IF fileseg(f) > biggest[1]
                  THEN segfile_loop(Tail(order), seg, <<fileseg(f), f>>)
             ELSE segfile_loop(Tail(order), seg, biggest)

\* the selection taking seq as omitted whatever it is given
_segfile_for_seq_latest(order, s) == segfile_loop(order, None, <<-1, None>>)

\* StateKeeper._segfile_for_seq as the code computes it, order being what
\* self._segfiles(namespace) yields
_segfile_for_seq_loop(order, s) ==
    LET seg == IF s = None THEN None ELSE Some(s[1] \div segment_size)
    IN  segfile_loop(order, seg, <<-1, None>>)

\* MultiLog._segfile_for_seqno as the code computes it, order being what
\* self._segfiles(tag) yields
_segfile_for_seqno_loop(order, s) ==
    LET seg == IF s = None THEN None ELSE Some(s[1] \div segment_size)
    IN  segfile_loop(order, seg, <<-1, None>>)

\* a call of StateKeeper._segfile_for_seq(label, seq) on the directory
StateKeeper_segfile_for_seq ==
    /\ sf_out["StateKeeper"] = None
    /\ \E order \in Orders(_segfiles(sf_dir, sf_arg[1])) :
          sf_out' = [sf_out EXCEPT !["StateKeeper"] = Some(_segfile_for_seq_loop(order, sf_arg[2]))]
    /\ UNCHANGED <<sf_dir, sf_arg>>
    /\ UNCHANGED <<skvars, mlvars, thvars, monovars, callvars, bldvars, auxvars>>

\* a call of MultiLog._segfile_for_seqno(label, seq) on the directory
MultiLog_segfile_for_seqno ==
    /\ sf_out["MultiLog"] = None
    /\ \E order \in Orders(MultiLog_segfiles(sf_dir, Str(sf_arg[1]))) :
          sf_out' = [sf_out EXCEPT !["MultiLog"] = Some(_segfile_for_seqno_loop(order, sf_arg[2]))]
    /\ UNCHANGED <<sf_dir, sf_arg>>
    /\ UNCHANGED <<skvars, mlvars, thvars, monovars, callvars, bldvars, auxvars>>

\* ---------------------------------------------------------------- specification
\* StateKeeper.__init__, MultiLog.__init__ and MonoLog.__init__, each on an
\* empty directory of its own, ThreadSafeLogMixin.__init__ with no thread in
\* a call, and MultiWrite.__init__
InitEngines ==
    /\ files = << >>
    /\ _state = << >>
    /\ _seq = 0
    /\ ret = 0
    /\ hist = << >>
    /\ reopens = 0
    /\ closed = << >>
    /\ lastOp = "init"
    /\ ml_files = << >>
    /\ _cur = << >>
    /\ ml_seq = 0
    /\ ml_ret = 0
    /\ ml_hist = << >>
    /\ events = << >>
    /\ ml_reopens = 0
    /\ ml_closed = << >>
    /\ ml_exc = ""
    /\ writelock = None
    /\ th_pc = [t \in Threads |-> "idle"]
    /\ th_local = [t \in Threads |-> NoCall]
    /\ th_ret = [t \in Threads |-> << >>]
    /\ th_calls = [t \in Threads |-> 0]
    /\ mono_files = << >>
    /\ mono_cur = NOTFOUND_DATUM
    /\ mono_seq = 0
    /\ mono_ret = 0
    /\ mono_hist = << >>
    /\ got = [e \in Engines |-> "none"]
    /\ ctor = NoCtor
    /\ ops = << >>
    /\ built = << >>
    /\ mono_lock = None
    /\ gen = NoIter

\* the engines as constructed, and no segment file selection asked for
Init ==
    /\ InitEngines
    /\ mono_mixin = FALSE
    /\ sf_dir = << >>
    /\ sf_arg = <<"a", None>>
    /\ sf_out = NoSelection

\* the engines as constructed, and a directory and arguments for a segment
\* file selection
InitSegfile ==
    /\ InitEngines
    /\ mono_mixin = FALSE
    /\ sf_dir \in SfDirs
    /\ sf_arg \in SfArgs
    /\ sf_out = NoSelection

Next ==
    \/ \E ns \in Namespaces, kv \in KVInputs : write(ns, kv)
    \/ \E items \in MultiInputs : multiwrite(items)

\* one session of a StateKeeper on an initially empty directory
Spec == Init /\ [][Next]_vars

NextReopen ==
    \/ \E ns \in Namespaces, kv \in KVInputs : write(ns, kv)
    \/ \E items \in MultiInputs : multiwrite(items)
    \/ reopen

\* sessions on one directory, separated by close and reopen
SpecReopen == Init /\ [][NextReopen]_vars

NextML ==
    \E event \in Payloads, tag \in Tags : put(event, tag)

\* one session of a MultiLog on an initially empty directory
SpecML == Init /\ [][NextML]_vars

NextMLReopen ==
    \/ \E event \in Payloads, tag \in Tags : put(event, tag)
    \/ MultiLog_reopen

\* MultiLogs on one directory, one after the other
SpecMLReopen == Init /\ [][NextMLReopen]_vars

NextSer ==
    \E event \in SerEvents, tag \in SerTagArgs : SerializingMultiLog_put(event, tag)

\* one session of a SerializingMultiLog(json.dumps, json.loads) on an
\* initially empty directory
SpecSer == Init /\ [][NextSer]_vars

NextThreads ==
    \E t \in Threads :
        \/ \E ns \in Namespaces : write_load(t, ns)
        \/ write_store(t)
        \/ write_arg(t)
        \/ write_write(t)
        \/ write_return(t)
        \/ put_acquire(t)
        \/ put_super(t)

\* two threads calling into one (ThreadSafeLogMixin, StateKeeper) object on an
\* initially empty directory, interleaved in every way
SpecThreads == Init /\ [][NextThreads]_vars

NextMono ==
    \E event \in MonoPayloads : MonoLog_put(event)

\* one session of a MonoLog on an initially empty directory
SpecMono == Init /\ [][NextMono]_vars

NextCalls ==
    \/ OpsDone < MaxCallOps /\ \E ns \in Namespaces : write(ns, ThreadKV)
    \/ OpsDone < MaxCallOps /\ \E tag \in Tags : put(<<"v1">>, tag)
    \/ OpsDone < MaxCallOps /\ MonoLog_put(<<"p1">>)
    \/ \E ns \in Namespaces, key \in {None, Some("x")}, seqno \in GetSeqs :
           StateKeeper_get(ns, key, seqno)
    \/ \E tags \in {None, Some({Str("a")})}, seqno \in GetSeqs : MultiLog_get_call(tags, seqno)
    \/ \E seqno \in GetSeqs : MonoLog_get_call(seqno)

\* the three engines side by side, each on its own directory, with get calls
\* between the writes
SpecCalls == Init /\ [][NextCalls]_vars

NextCtor ==
    \/ \E engine \in Engines, size \in CtorSizes : construct(engine, size)
    \/ ctor_write
    \/ Constructed("StateKeeper") /\ \E ns \in Namespaces, kv \in KVInputs : write(ns, kv)
    \/ Constructed("MultiLog") /\ \E event \in Payloads, tag \in Tags : put(event, tag)
    \/ Constructed("MonoLog") /\ \E event \in MonoPayloads : MonoLog_put(event)

\* an engine is constructed with a segment size of the caller's and then
\* written to
SpecCtor == Init /\ [][NextCtor]_vars

\* the engines as constructed, the MonoLog object either given a lock or
\* composed with the mixin
InitLocks ==
    /\ InitEngines
    /\ mono_mixin \in BOOLEAN
    /\ sf_dir = << >>
    /\ sf_arg = <<"a", None>>
    /\ sf_out = NoSelection

NextLocks ==
    \/ \E t \in Threads, tag \in Tags : ThreadSafeLogMixin_put(t, tag)
    \/ \E t \in Threads : MultiLog_put_load(t)
    \/ \E t \in Threads : MultiLog_put_store(t)
    \/ \E t \in Threads : MultiLog_put_write(t)
    \/ \E t \in Threads : MultiLog_put_return(t)
    \/ \E t \in Threads : ThreadSafeLogMixin_MonoLog_put(t)
    \/ \E t \in Threads : MonoLog_put_acquire(t)
    \/ \E t \in Threads : MonoLog_put_load(t)
    \/ \E t \in Threads : MonoLog_put_store(t)
    \/ \E t \in Threads : MonoLog_put_write(t)
    \/ \E t \in Threads : MonoLog_put_return(t)

\* threads that put on an object of class (ThreadSafeLogMixin, MultiLog)
\* and on a MonoLog that holds a lock
SpecLocks == InitLocks /\ [][NextLocks]_vars

NextBare ==
    \/ \E t \in Threads, tag \in Tags : MultiLog_put_call(t, tag)
    \/ \E t \in Threads : MultiLog_put_load(t)
    \/ \E t \in Threads : MultiLog_put_store(t)
    \/ \E t \in Threads : MultiLog_put_write(t)
    \/ \E t \in Threads : MultiLog_put_return(t)

\* threads that put on a bare MultiLog
SpecBare == Init /\ [][NextBare]_vars

\* writes to two partitions while a read_ns generator of partition "a" is
\* stepped
TailKVs == { [k \in {"x"} |-> 1], [k \in {"y"} |-> 1] }

NextTail ==
    \/ \E ns \in Namespaces, kv \in TailKVs : write(ns, kv)
    \/ \E start \in IterStarts, key \in IterKeys : read_ns_call("a", start, key)
    \/ read_ns_next

SpecTail == Init /\ [][NextTail]_vars

\* get, read and a stepped read_ns generator between the writes of one key
NextReads ==
    \/ \E ns \in Namespaces : write(ns, ThreadKV)
    \/ \E key \in IterKeys, seqno \in GetSeqs : StateKeeper_get("a", key, seqno)
    \/ \E key \in IterKeys : StateKeeper_read(1, None, key)
    \/ \E key \in IterKeys : read_ns_call("a", 1, key)
    \/ read_ns_next

SpecReads == Init /\ [][NextReads]_vars

\* writes and puts of which some fail with an IO error
NextFail ==
    \/ \E ns \in Namespaces : write(ns, ThreadKV)
    \/ \E ns \in Namespaces : write_fail(ns, ThreadKV)
    \/ \E tag \in Tags : put(<<"v1">>, tag)
    \/ \E tag \in Tags : put_fail(<<"v1">>, tag)

SpecFail == Init /\ [][NextFail]_vars

NextSegfile ==
    \/ StateKeeper_segfile_for_seq
    \/ MultiLog_segfile_for_seqno

\* the segment file selection of both engines applied to a directory
SpecSegfile == InitSegfile /\ [][NextSegfile]_vars

NextPlacement ==
    \/ \E ns \in Namespaces : write(ns, ThreadKV)
    \/ \E items \in MultiInputs : multiwrite(items)
    \/ \E tag \in Tags : put(<<"v1">>, tag)

\* a StateKeeper and a MultiLog, each in one session on its own empty
\* directory
SpecPlacement == Init /\ [][NextPlacement]_vars

NextBuilder ==
    \/ \E ns \in Namespaces, kv \in KVInputs : MultiWrite_write(ns, kv)
    \/ MultiWrite_execute

\* one builder on a StateKeeper, executed whenever its caller likes
SpecBuilder == Init /\ [][NextBuilder]_vars

\* ---------------------------------------------------------------- reference
\* What the calls made so far say the store holds, independent of the files.

\* the calls i..Len(hist) with a sequence number up to s, applied to acc
RECURSIVE HistFold(_, _, _, _)
HistFold(ns, s, i, acc) ==
    IF i > Len(hist) THEN acc
    ELSE IF hist[i][1] <= s /\ ns \in DOMAIN hist[i][2]
         THEN HistFold(ns, s, i + 1, Update(acc, hist[i][2][ns]))
         ELSE HistFold(ns, s, i + 1, acc)

\* the key/value map of ns after all writes with sequence number <= s
StateAsOf(ns, s) == HistFold(ns, s, 1, EmptyDict)

\* the value most recently written to key in ns at or before s
ValueAsOf(ns, key, s) == DictGet(StateAsOf(ns, s), key, NOTFOUND)

\* the sequence numbers at which ns was written
WrittenSeqs(ns) == {hist[i][1] : i \in {j \in DOMAIN hist : ns \in DOMAIN hist[j][2]}}

\* the lines of ns in all its files that carry sequence number s
LinesAt(dir, ns, s) ==
    {<<f, i>> \in UNION {{f} \X DOMAIN dir[f] : f \in _segfiles(dir, ns)} :
        _segfile_reader(dir[f][i])[1] = s}

\* sequence numbers worth asking for
SeqArgs == 1..(MaxWrites + 1)

\* ---------------------------------------------------------------- claims
\* this step is a write or multiwrite call
IsWriteStep == Len(hist') = Len(hist) + 1

\* C1: starting from an empty store, every write and every multiwrite
\* increases the sequence counter by exactly 1 and returns the new value, so
\* after N calls the counter is N; the counter never decreases.
C1_SeqCounter ==
    /\ [](_seq = Len(hist))
    /\ [][IsWriteStep => (_seq' = _seq + 1 /\ ret' = _seq')]_vars
    /\ [][_seq' >= _seq]_vars

\* both kinds of call were made and the last one returned the counter
C1_Witness ==
    /\ Len(hist) = 3
    /\ lastOp = "write"
    /\ ret = 3
    /\ \E i \in DOMAIN hist : Cardinality(DOMAIN hist[i][2]) = 2

\* a segment file of ns exists with an index up to the segment of s
HasFileUpTo(dir, ns, s) ==
    \E f \in _segfiles(dir, ns) : fileseg(f) <= s \div segment_size

\* C2: for every partition P, key k and sequence number s >= 1 such that P
\* has a segment file with index <= floor(s / segment_size), get(P, k, s)
\* returns the value most recently written to k in P by a write with
\* sequence <= s, NOTFOUND if there is none.
C2_PointInTimeRead ==
    \A ns \in Namespaces, k \in Keys, s \in SeqArgs :
        HasFileUpTo(files, ns, s) =>
            get(ns, Some(k), Some(s)) = Return(ValueAsOf(ns, k, s))

\* C3: get(P, key, s) for any partition P and any s in [1, S] returns a value
\* and never raises; when s predates every segment file of P the result is
\* NOTFOUND for a key and the empty map when the key is omitted.
C3_GetNeverRaises ==
    \A ns \in Namespaces, s \in 1.._seq :
        /\ \A k \in Keys :
              /\ get(ns, Some(k), Some(s)).exc = ""
              /\ ~HasFileUpTo(files, ns, s) =>
                     get(ns, Some(k), Some(s)) = Return(NOTFOUND)
        /\ get(ns, None, Some(s)).exc = ""
        /\ ~HasFileUpTo(files, ns, s) => get(ns, None, Some(s)) = Return(EmptyDict)

\* the write that produced the line: the kvdict given for ns at seqno
KvOfWrite(ns, seqno) ==
    LET i == CHOOSE j \in DOMAIN hist : hist[j][1] = seqno
    IN  hist[i][2][ns]

\* C4: the first line of every segment file is a snapshot holding the
\* partition's complete map immediately after that write, every later line
\* holds exactly the keys of its write, and folding the lines of a file up
\* to and including the line with sequence s yields the state as of s.
C4_SnapshotThenDelta ==
    \A f \in DOMAIN files :
        LET lines == files[f]
            ns    == f[1]
        IN  /\ Len(lines) >= 1
            /\ _segfile_reader(lines[1])[2] = StateAsOf(ns, _segfile_reader(lines[1])[1])
            /\ \A i \in 2..Len(lines) :
                  _segfile_reader(lines[i])[2] = KvOfWrite(ns, _segfile_reader(lines[i])[1])
            /\ \A i \in 1..Len(lines) :
                  FoldLines(SubSeq(lines, 1, i), 1, EmptyDict)
                      = StateAsOf(ns, _segfile_reader(lines[i])[1])

\* a file whose snapshot holds a key that its write did not name, followed
\* by a delta
C4_Witness ==
    \E f \in DOMAIN files :
        /\ Len(files[f]) >= 2
        /\ DOMAIN files[f][1].jdata # DOMAIN KvOfWrite(f[1], files[f][1].seqno)
        /\ files[f][2].jdata # StateAsOf(f[1], files[f][2].seqno)

\* the multiwrite of the spec's scenario 2
Scenario2 == << <<"a", [k \in {"x"} |-> 1]>>, <<"b", [k \in {"y"} |-> 2]>> >>

\* C5: multiwrite(m) increments the counter exactly once and every partition
\* named in m receives exactly one record carrying that sequence number; on
\* an empty store multiwrite({a:{x:1}, b:{y:2}}) gives seq 1, get(a, x) = 1,
\* get(b, y) = 2 and the files a.000000000 and b.000000000 hold one snapshot
\* line with sequence 1 each.
C5_MultiwriteOneSeq ==
    /\ [][(IsWriteStep /\ lastOp' = "multiwrite") =>
            /\ _seq' = _seq + 1
            /\ \A ns \in Namespaces :
                  Cardinality(LinesAt(files', ns, _seq')) =
                      IF ns \in DOMAIN hist'[Len(hist')][2] THEN 1 ELSE 0]_vars
    /\ [](hist = << <<1, ItemsMap(Scenario2)>> >> =>
            /\ _seq = 1
            /\ get("a", Some("x"), None) = Return(1)
            /\ get("b", Some("y"), None) = Return(2)
            /\ DOMAIN files = { <<"a", <<0, 0, 0, 0, 0, 0, 0, 0, 0>> >>,
                                <<"b", <<0, 0, 0, 0, 0, 0, 0, 0, 0>> >> }
            /\ files[<<"a", <<0, 0, 0, 0, 0, 0, 0, 0, 0>> >>]
                   = << dataline(1, [k \in {"x"} |-> 1]) >>
            /\ files[<<"b", <<0, 0, 0, 0, 0, 0, 0, 0, 0>> >>]
                   = << dataline(1, [k \in {"y"} |-> 2]) >>)

\* the scenario's multiwrite was the first call, and a later multiwrite put
\* one line of the same sequence number into the files of both partitions
C5_Witness ==
    /\ Len(hist) >= 2
    /\ hist[1] = <<1, ItemsMap(Scenario2)>>
    /\ lastOp = "multiwrite"
    /\ \A ns \in Namespaces : Cardinality(LinesAt(files, ns, _seq)) = 1

\* the largest sequence number of a line in the directory, 0 without lines
MaxSeqOnDisk(dir) ==
    SetMax({_segfile_reader(dir[f][i])[1] :
                <<f, i>> \in UNION {{f} \X DOMAIN dir[f] : f \in DOMAIN dir}})

\* C6: after writes, a new StateKeeper constructed on the same directory has
\* seq equal to the largest sequence number on disk, namespaces() equal to
\* the partitions on disk, and get(P, key) and get(P, key, s) return the same
\* values as before the close.
C6_ReopenRoundTrip ==
    lastOp = "reopen" =>
        /\ _seq = MaxSeqOnDisk(files)
        /\ namespaces(_state) = _namespaces(files)
        /\ \A ns \in Namespaces, k \in Keys :
              /\ get(ns, Some(k), None)
                    = get_on(files, closed[1], closed[2], ns, Some(k), None)
              /\ \A s \in SeqArgs :
                    get(ns, Some(k), Some(s))
                        = get_on(files, closed[1], closed[2], ns, Some(k), Some(s))

\* the namespaces a write step names
WrittenNow == DOMAIN hist'[Len(hist')][2]

\* the first sequence number on record for ns
FirstSeq(dir, ns) ==
    LET f == CHOOSE g \in _segfiles(dir, ns) :
                 \A h \in _segfiles(dir, ns) : fileseg(g) <= fileseg(h)
    IN  _segfile_reader(dir[f][1])[1]

\* C7: a write to partition P leaves every other partition Q untouched: no
\* file of Q is created or modified, Q's cache entry is unchanged, and
\* get(Q, k) and get(Q, k, s) return the same before and after, for every
\* key k and every s >= Q's first record.  The reads are compared for the
\* partitions that exist, those with a record.
C7_PartitionIsolation ==
    [][IsWriteStep =>
        \A q \in Namespaces \ WrittenNow :
            /\ _segfiles(files', q) = _segfiles(files, q)
            /\ \A f \in _segfiles(files, q) : files'[f] = files[f]
            /\ (q \in DOMAIN _state') = (q \in DOMAIN _state)
            /\ q \in DOMAIN _state => _state'[q] = _state[q]
            /\ _segfiles(files, q) # {} =>
                  \A k \in Keys :
                      /\ get_on(files', _state', _seq', q, Some(k), None)
                            = get(q, Some(k), None)
                      /\ \A s \in SeqArgs :
                            s >= FirstSeq(files, q) =>
                                get_on(files', _state', _seq', q, Some(k), Some(s))
                                    = get(q, Some(k), Some(s))]_vars

\* a write to a has just created a file while b holds records in two files
C7_Witness ==
    /\ lastOp = "write"
    /\ DOMAIN hist[Len(hist)][2] = {"a"}
    /\ Cardinality(_segfiles(files, "b")) = 2
    /\ \E f \in _segfiles(files, "a") : files[f][1].seqno = _seq

\* C8: every pair (s, v) that read_ns(P, start, key) yields has v equal to
\* the value of key in P as of sequence s, NOTFOUND if absent; in particular
\* the frame yielded for start is the value of key at start, also when the
\* last writes before start did not touch key.
C8_ReadNsValues ==
    \A ns \in Namespaces, k \in Keys, start \in 1.._seq :
        LET frames == read_ns(ns, start, Some(k))
        IN  \A i \in DOMAIN frames :
                frames[i][2] = ValueAsOf(ns, k, frames[i][1])

\* the writes of ns after start that name key k, in order
RECURSIVE TouchingAfter(_, _, _, _)
TouchingAfter(ns, k, start, i) ==
    IF i > Len(hist) THEN << >>
    ELSE IF /\ hist[i][1] > start
            /\ ns \in DOMAIN hist[i][2]
            /\ k \in DOMAIN hist[i][2][ns]
         THEN <<hist[i][1]>> \o TouchingAfter(ns, k, start, i + 1)
         ELSE TouchingAfter(ns, k, start, i + 1)

\* C9: the first frame read_ns(P, start, key) yields is the initial frame,
\* at sequence exactly start; no frame has a sequence below start; every
\* later frame has a strictly larger sequence than the one before it, one
\* frame per later write of P that touches key.
C9_ReadNsOrdering ==
    \A ns \in Namespaces, k \in Keys, start \in 1.._seq :
        LET frames == read_ns(ns, start, Some(k))
        IN  /\ Len(frames) >= 1
            /\ frames[1][1] = start
            /\ \A i \in DOMAIN frames : frames[i][1] >= start
            /\ \A i \in 2..Len(frames) : frames[i][1] > frames[i - 1][1]
            /\ [i \in 1..(Len(frames) - 1) |-> frames[i + 1][1]]
                   = TouchingAfter(ns, k, start, 1)

\* the yielded maps of frames i.. merged into acc, later ones winning
RECURSIVE FoldFrames(_, _, _)
FoldFrames(frames, i, acc) ==
    IF i > Len(frames) THEN acc
    ELSE FoldFrames(frames, i + 1,
             IF frames[i][2] = NOTFOUND_FRAME THEN acc ELSE Update(acc, frames[i][2]))

\* C10: for every partition P, read_ns(P, 1, None) yields a frame for every
\* sequence at which P was written, and folding the yielded maps in yield
\* order, later ones winning, gives get(P) at the current counter.  A
\* partition is one that exists, with a record; the NOTFOUND object that
\* read_ns may yield first is not a map and takes no part in the fold.
C10_ReplayFold ==
    \A ns \in _namespaces(files) :
        LET frames == read_ns(ns, 1, None)
        IN  /\ WrittenSeqs(ns) \subseteq {frames[i][1] : i \in DOMAIN frames}
            /\ get(ns, None, None) = Return(FoldFrames(frames, 1, EmptyDict))

\* a partition whose records lie in two files, the second starting with a
\* snapshot, and whose replay begins with the NOTFOUND frame or with maps
C10_Witness ==
    \E ns \in _namespaces(files) :
        /\ Cardinality(_segfiles(files, ns)) >= 2
        /\ Len(read_ns(ns, 1, None)) >= 4
        /\ Cardinality(DOMAIN get(ns, None, None).val) = 2

\* namespaces arguments of read(): omitted, or a list of names
NsArgs == {None} \cup {Some(S) : S \in (SUBSET Namespaces) \ {{}}}

\* the partitions a namespaces argument selects
Selected(nsarg) == IF nsarg = None THEN _namespaces(files) ELSE nsarg[1]

\* the selected partitions that were written at sequence s
WrittenAt(nsarg, s) == {ns \in Selected(nsarg) : s \in WrittenSeqs(ns)}

\* C11: read(start) run to exhaustion yields a frame for every sequence
\* number in [start, S] at which a selected partition was written; after the
\* single multiwrite({a:{x:1}, b:{y:2}}) on an empty store read(1) yields
\* exactly the one frame (1, {a:{x:1}, b:{y:2}}).
C11_ReadComplete ==
    /\ \A start \in 1.._seq, nsarg \in NsArgs :
          LET frames == read(start, nsarg, None).frames
          IN  \A s \in start.._seq :
                  WrittenAt(nsarg, s) # {} =>
                      \E i \in DOMAIN frames : frames[i][1] = s
    /\ hist = << <<1, ItemsMap(Scenario2)>> >> =>
          read(1, None, None).frames = << <<1, ItemsMap(Scenario2)>> >>

\* C12: read never yields two frames with the same sequence number; the
\* partitions that carry a record with the same sequence are yielded as one
\* frame whose map has exactly one entry per such partition, and the frames
\* come in strictly increasing sequence order.
C12_ReadCoalesces ==
    \A start \in 1.._seq, nsarg \in NsArgs :
        /\ LET frames == read(start, nsarg, None).frames
           IN  /\ \A i \in DOMAIN frames :
                      DOMAIN frames[i][2] = WrittenAt(nsarg, frames[i][1])
               /\ \A i \in 2..Len(frames) : frames[i - 1][1] < frames[i][1]
        /\ \A k \in Keys :
              LET frames == read(start, nsarg, Some(k)).frames
              IN  \A i \in 2..Len(frames) : frames[i - 1][1] < frames[i][1]

\* read(1) yields a frame that holds the records of both partitions, written
\* by one multiwrite, after a frame of a single partition
C12_Witness ==
    LET frames == read(1, None, None).frames
    IN  /\ Len(frames) >= 2
        /\ \E i \in 2..Len(frames) : DOMAIN frames[i][2] = {"a", "b"}
        /\ \E k \in Keys : Len(read(1, None, Some(k)).frames) >= 2

\* ================================================================ MultiLog claims
\* tags arguments of MultiLog.get and read: omitted, or a list of strings,
\* "c" being a tag that is never written
TagLists == {None} \cup {Some({Str(t) : t \in S}) : S \in SUBSET (Tags \cup {"c"})}

\* the records put so far whose tag passes the filter
PutRecords(tags) == {ml_hist[i] : i \in {j \in DOMAIN ml_hist : tags = None \/ Str(ml_hist[j][2]) \in tags[1]}}

\* C13: MultiLog.get(tags=T, seqno=s) returns the payload of the record whose
\* sequence is exactly s when that record exists and its tag is in T (any
\* tag when T is omitted), and NOTFOUND otherwise, never an earlier record.
C13_GetAtSeq ==
    \A tags \in TagLists, s \in 1..(MaxPuts + 1) :
        LET recs == {r \in PutRecords(tags) : r[1] = s}
        IN  MultiLog_get(tags, Some(s)) =
                Return(IF recs = {} THEN NOTFOUND_DATUM ELSE (CHOOSE r \in recs : TRUE)[3])

\* C14: MultiLog.get(tags=T) without seqno returns the payload of the record
\* with the largest sequence among the records whose tag is in T (all when T
\* is omitted), and returns NOTFOUND, never raising, when no allowed tag has
\* a record, T naming a tag never written and the empty T included.
C14_GetCurrent ==
    \A tags \in TagLists :
        LET recs == PutRecords(tags)
        IN  MultiLog_get(tags, None) =
                Return(IF recs = {} THEN NOTFOUND_DATUM ELSE MaxEntry(recs)[3])

\* C15: the tuples yielded by MultiLog.read(start, tags) have strictly
\* increasing sequence numbers, each is the (seq, tag, payload) of a record
\* that was put, and with a list as tags every tuple's tag is in the list.
C15_ReadOrderAndFilter ==
    \A tags \in TagLists, start \in 1..(MaxPuts + 1) :
        LET out == MultiLog_read(start, tags)
        IN  /\ \A i \in 2..Len(out) : out[i - 1][1] < out[i][1]
            /\ \A i \in DOMAIN out : out[i] \in PutRecords(tags)

\* the 12 puts alternating the tags a and b, as far as the bound goes
Alternating(n) == [i \in 1..n |-> IF i % 2 = 1 THEN "a" ELSE "b"]

\* C16: MultiLog.read(start, tags) run to exhaustion yields every record with
\* sequence in [start, S] whose tag passes the filter, the records of the
\* segment that contains S included; after puts alternating the tags a, b
\* read(1) yields the sequences 1, 2, ... in order and read(1, tags=[a])
\* exactly the odd ones.
C16_ReadComplete ==
    /\ \A tags \in TagLists, start \in 1..ml_seq :
          LET out == MultiLog_read(start, tags)
          IN  \A r \in PutRecords(tags) :
                  r[1] >= start =>
                      \E i \in DOMAIN out : out[i][1] = r[1] /\ out[i][2] = r[2]
    /\ [i \in DOMAIN ml_hist |-> ml_hist[i][2]] = Alternating(Len(ml_hist)) =>
          /\ [i \in DOMAIN MultiLog_read(1, None) |-> MultiLog_read(1, None)[i][1]]
                 = [i \in 1..ml_seq |-> i]
          /\ {r[1] : r \in {MultiLog_read(1, Some({Str("a")}))[i] :
                               i \in DOMAIN MultiLog_read(1, Some({Str("a")}))}}
                 = {i \in 1..ml_seq : i % 2 = 1}

\* <<last sequence, last payload>> of each tag, by the records put
LastOfTag == [t \in {r[2] : r \in PutRecords(None)} |->
                 LET e == MaxEntry({r \in PutRecords(None) : r[2] = t}) IN <<e[1], e[3]>>]

\* C17: constructing a MultiLog on a directory that already holds records
\* succeeds, sets seq to the largest sequence number on disk and the tail
\* cache to (last sequence, last payload) of each tag, so that get() and
\* get(tags=T) return what they returned before the close.
C17_ReopenRoundTrip ==
    ml_reopens > 0 =>
        /\ ml_exc = ""
        /\ ml_seq = Len(ml_hist)
        /\ _cur = LastOfTag
        /\ \A tags \in TagLists :
              MultiLog_get(tags, None) = MultiLog_get_on(ml_files, LastOfTag, Len(ml_hist), tags, None)

\* ================================================================ SerializingMultiLog claims
\* the tag the i-th put stored its record under
StoredUnder(i) == IF events[i][2] = None THEN events[i][1].cls ELSE events[i][2][1]

\* the lines of the file of a tag that covers sequence s
TagLinesAt(tag, s) ==
    LET f == MultiLog_segfile_for_seg(Str(tag), s \div segment_size)
    IN  IF f \in DOMAIN ml_files THEN {ml_files[f][i] : i \in DOMAIN ml_files[f]} ELSE {}

C19_SerReadTranslates ==
    \A S \in (SUBSET Classes) \ {{}}, start \in 1..(MaxPuts + 1), with_tags \in BOOLEAN :
        SerializingMultiLog_read(start, Some({Type(c) : c \in S}), with_tags)
            = SerializingMultiLog_read(start, Some({Str(c) : c \in S}), with_tags)

\* ================================================================ ThreadSafeLogMixin claims
\* the sequence numbers the write calls of a thread returned
ReturnedSeqs(t) == {th_ret[t][i].val : i \in {j \in DOMAIN th_ret[t] : th_ret[t][j].exc = ""}}

\* C20: a StateKeeper composed with ThreadSafeLogMixin runs write while
\* holding the mutex for the whole call, so in every interleaving of two
\* threads calling write the calls return distinct sequence numbers and each
\* segment file's lines stay in strictly increasing sequence order.
C20_LockedWrites ==
    /\ \A t \in Threads :
          th_pc[t] \in {"loaded", "stored", "called", "written"} => writelock = Some(t)
    /\ \A t, u \in Threads : t # u => ReturnedSeqs(t) \cap ReturnedSeqs(u) = {}
    /\ \A t \in Threads : Cardinality(ReturnedSeqs(t)) = Len(th_ret[t])
    /\ \A f \in DOMAIN files : \A i \in 2..Len(files[f]) :
          files[f][i - 1].seqno < files[f][i].seqno

\* ================================================================ MonoLog claims
\* C21: in one session, after puts p1..pN, MonoLog.get(seqno=s) returns p_s
\* for every s in [1, N], and read(start) yields (s, p_s) for s = start..N in
\* increasing sequence order (NOTFOUND only when no record exists at or
\* before start).
C21_MonoRetrievable ==
    /\ \A s \in 1..mono_seq :
          /\ MonoLog_get(Some(s)).exc = ""
          /\ MonoLog_get(Some(s)).val = mono_hist[s][2]
    /\ \A start \in 1..mono_seq :
          MonoLog_read(start) = [i \in 1..(mono_seq - start + 1) |-> mono_hist[start + i - 1]]

\* ================================================================ claims on calls
\* C22: get with a sequence number below 1 (in particular 0) fails with
\* ValueError in StateKeeper.get, MultiLog.get and MonoLog.get, and the
\* failed call leaves the sequence counter, the caches and all segment files
\* unchanged.
C22_LowSeqnoRejected ==
    [][ /\ (\E ns \in Namespaces, key \in {None, Some("x")}, s \in {-1, 0} :
                StateKeeper_get(ns, key, Some(s)))
            => /\ got'["StateKeeper"] = "ValueError"
               /\ UNCHANGED <<files, _state, _seq>>
        /\ (\E tags \in {None, Some({Str("a")})}, s \in {-1, 0} :
                MultiLog_get_call(tags, Some(s)))
            => /\ got'["MultiLog"] = "ValueError"
               /\ UNCHANGED <<ml_files, _cur, ml_seq>>
        /\ (\E s \in {-1, 0} : MonoLog_get_call(Some(s)))
            => /\ got'["MonoLog"] = "ValueError"
               /\ UNCHANGED <<mono_files, mono_cur, mono_seq>>
      ]_vars

\* every engine holds a record and its last get call raised ValueError
C22_Witness ==
    /\ hist # << >> /\ ml_hist # << >> /\ mono_hist # << >>
    /\ \A e \in Engines : got[e] = "ValueError"

\* C23: constructing an engine (StateKeeper, MultiLog, MonoLog) with a
\* non-positive segment size is rejected at construction with ValueError,
\* before any write can compute a segment index.
C23_NonPositiveSizeRejected ==
    (ctor.engine # "" /\ ctor.size <= 0) => (ctor.exc = "ValueError" /\ ~ctor.wrote)

\* C24: segmented single partition scenario, at the segment size of this
\* model: n writes to one partition ns on an empty store, and nothing else,
\* produce the segment files ns.000000000 onwards, each holding segment_size
\* lines and the last one the rest (5, 5, 5, 5 and 1 lines for 21 writes at
\* segment size 5).
C24_SegmentedScenario ==
    \A ns \in Namespaces :
        (hist # << >> /\ \A i \in 1..Len(hist) : DOMAIN hist[i][2] = {ns}) =>
            LET n == Len(hist)
            IN  \A g \in 0..n :
                    LET f == _segfile_for_seg(ns, g)
                        rest == n - g * segment_size
                    IN  IF rest > 0
                        THEN /\ f \in DOMAIN files
                             /\ Len(files[f]) = (IF rest < segment_size THEN rest ELSE segment_size)
                        ELSE f \notin DOMAIN files

\* the kvdicts given to the builder for partition ns, merged in call order,
\* a later one winning
RECURSIVE MergedFor(_, _)
MergedFor(calls, ns) ==
    IF calls = << >> THEN EmptyDict
    ELSE LET n == Len(calls)
             before == MergedFor(SubSeq(calls, 1, n - 1), ns)
         IN  IF calls[n][1] = ns THEN Update(before, calls[n][2]) ELSE before

\* the partitions the builder was given
BuiltFor(calls) == {calls[i][1] : i \in DOMAIN calls}

\* C25: MultiWrite(db).write(P1, kv1).write(P2, kv2)...execute() applies all
\* accumulated updates in one multiwrite, under a single new sequence number:
\* one line of that number in the file of every partition given and in no
\* other; several write calls for one partition are merged, a later one
\* winning, into the one update of that partition.
C25_BuilderOneMultiwrite ==
    [][MultiWrite_execute =>
        /\ _seq' = _seq + 1
        /\ hist' = Append(hist, <<_seq', [ns \in BuiltFor(built) |-> MergedFor(built, ns)]>>)
        /\ \A ns \in Namespaces :
              Cardinality(LinesAt(files', ns, _seq')) =
                  IF ns \in BuiltFor(built) THEN 1 ELSE 0
        /\ \A ns \in BuiltFor(built) : \A k \in DOMAIN MergedFor(built, ns) :
              get_on(files', _state', _seq', ns, Some(k), None)
                  = Return(MergedFor(built, ns)[k])
        /\ \A ns \in BuiltFor(built) : \A k \in DOMAIN MergedFor(built, ns) :
              get_on(files', _state', _seq', ns, Some(k), Some(_seq'))
                  = Return(MergedFor(built, ns)[k])]_vars

\* a builder was given x = 1 and then x = 2 for one partition, and another
\* partition too, and was executed: one sequence number, x = 2
C25_Witness ==
    /\ lastOp = "multiwrite"
    /\ hist # << >>
    /\ hist[Len(hist)][1] = _seq
    /\ \E i, j \in DOMAIN built :
          /\ i < j
          /\ built[i] = <<"a", [k \in {"x"} |-> 1]>>
          /\ built[j] = <<"a", [k \in {"x", "y"} |-> 2]>>
    /\ BuiltFor(built) = Namespaces
    /\ \A ns \in Namespaces : Cardinality(LinesAt(files, ns, _seq)) = 1
    /\ get("a", Some("x"), None) = Return(2)

\* C26: after any sequence of write, multiwrite and close-and-reopen
\* operations on one storage directory, the sequence numbers of the lines of
\* every segment file are strictly increasing from the first line to the last.
C26_FileSeqsIncrease ==
    \A f \in DOMAIN files : \A i, j \in DOMAIN files[f] :
        i < j => _segfile_reader(files[f][i])[1] < _segfile_reader(files[f][j])[1]

\* C27: in one session starting from an empty directory, every line with
\* sequence s of partition or tag L (StateKeeper and MultiLog) lies in the
\* file L.<floor(s / segment_size), 9 digits>, and no segment file ever holds
\* more than segment_size lines.
C27_SegmentPlacement ==
    /\ \A i \in DOMAIN hist : \A ns \in DOMAIN hist[i][2] :
          LET f == <<ns, Fmt09(hist[i][1] \div segment_size)>>
          IN  /\ f \in DOMAIN files
              /\ \E n \in DOMAIN files[f] : _segfile_reader(files[f][n])[1] = hist[i][1]
    /\ \A f \in DOMAIN files :
          /\ Len(files[f]) <= segment_size
          /\ \A n \in DOMAIN files[f] :
                f[2] = Fmt09(_segfile_reader(files[f][n])[1] \div segment_size)
    /\ \A i \in DOMAIN ml_hist :
          LET f == <<ml_hist[i][2], Fmt09(ml_hist[i][1] \div segment_size)>>
          IN  /\ f \in DOMAIN ml_files
              /\ \E n \in DOMAIN ml_files[f] :
                    MultiLog_segfile_reader(ml_files[f][n])[1] = ml_hist[i][1]
    /\ \A f \in DOMAIN ml_files :
          /\ Len(ml_files[f]) <= segment_size
          /\ \A n \in DOMAIN ml_files[f] :
                LET r == MultiLog_segfile_reader(ml_files[f][n])
                IN  f = <<r[2], Fmt09(r[1] \div segment_size)>>

\* both engines have filled a segment file beyond the first of a label
C27_Witness ==
    /\ \E f \in DOMAIN files : fileseg(f) >= 1 /\ Len(files[f]) = segment_size
    /\ \E f \in DOMAIN ml_files : fileseg(f) >= 1 /\ Len(ml_files[f]) = segment_size

\* the files of the label asked for, and the index asked for
SfLabelFiles == {f \in DOMAIN sf_dir : f[1] = sf_arg[1]}
SfBelow(g) == {f \in SfLabelFiles : fileseg(f) < g}
SfLargest(S) == CHOOSE f \in S : \A h \in S : fileseg(h) <= fileseg(f)

\* what the selection is to return for the directory and arguments given
SfExpected ==
    IF sf_arg[2] = None
    THEN (IF SfLabelFiles = {} THEN None ELSE SfLargest(SfLabelFiles))
    ELSE LET G == sf_arg[2][1] \div segment_size
         IN  IF <<sf_arg[1], Fmt09(G)>> \in DOMAIN sf_dir THEN <<sf_arg[1], Fmt09(G)>>
             ELSE IF SfBelow(G) # {} THEN SfLargest(SfBelow(G))
             ELSE None

\* C28: segment file selection (_segfile_for_seq / _segfile_for_seqno):
\* given seq, the result is the label's file with index exactly
\* floor(seq / segment_size) if it exists, otherwise the label's file with the
\* largest index below it, otherwise none; with seq omitted it is the label's
\* file with the largest index, or none. A file with a larger index than
\* floor(seq / segment_size) is never returned. The operators the engines of
\* this model use for the selection return the same.
C28_SegfileSelection ==
    /\ \A e \in DOMAIN sf_out : sf_out[e] # None =>
          /\ sf_out[e][1] = SfExpected
          /\ (sf_arg[2] # None /\ sf_out[e][1] # None) =>
                fileseg(sf_out[e][1]) <= sf_arg[2][1] \div segment_size
    /\ sf_out["StateKeeper"] # None =>
          sf_out["StateKeeper"][1] = _segfile_for_seq(sf_dir, sf_arg[1], sf_arg[2])
    /\ sf_out["MultiLog"] # None =>
          sf_out["MultiLog"][1] = _segfile_for_seqno(sf_dir, Str(sf_arg[1]), sf_arg[2])

\* both selections were made on a directory that holds files of the label
\* below, at no and above the index asked for and a file of the other label,
\* and returned the file below
C28_Witness ==
    /\ sf_arg = <<"a", Some(segment_size)>>
    /\ DOMAIN sf_dir = {<<"a", Fmt09(0)>>, <<"a", Fmt09(2)>>, <<"b", Fmt09(1)>>}
    /\ \A e \in DOMAIN sf_out : sf_out[e] = Some(<<"a", Fmt09(0)>>)

\* C29: every frame yielded by StateKeeper.read(start, ...) with key omitted
\* and every tuple yielded by MultiLog.read(start, ...) has a sequence number
\* >= start, also when start is not the first sequence of its segment.
C29_ReadLowerBound ==
    /\ \A start \in 1.._seq, nsarg \in NsArgs :
          LET frames == read(start, nsarg, None).frames
          IN  \A i \in DOMAIN frames : frames[i][1] >= start
    /\ \A start \in 1..ml_seq, tags \in TagLists :
          LET out == MultiLog_read(start, tags)
          IN  \A i \in DOMAIN out : out[i][1] >= start

\* the sequence numbers, after start, of the writes that touch key k in one
\* of the partitions P, and the partitions of P a write at s touched k in
TouchedAt(P, k, s) ==
    {ns \in P : \E i \in DOMAIN hist :
        hist[i][1] = s /\ ns \in DOMAIN hist[i][2] /\ k \in DOMAIN hist[i][2][ns]}
TouchSeqs(P, k, start) == {s \in (start + 1).._seq : TouchedAt(P, k, s) # {}}

\* the value written for key k of partition ns at sequence s
WrittenValue(ns, k, s) ==
    hist[CHOOSE i \in DOMAIN hist : hist[i][1] = s][2][ns][k]

\* the n-th smallest element of a set of numbers
RECURSIVE NthOf(_, _)
NthOf(S, n) ==
    LET least == CHOOSE x \in S : \A y \in S : x <= y
    IN  IF n = 1 THEN least ELSE NthOf(S \ {least}, n - 1)

\* C30: StateKeeper.read(start, partitions, key) first yields one initial
\* frame mapping every requested partition to {key: value of key in that
\* partition as of start, or NOTFOUND}; afterwards it yields a frame exactly
\* for the writes that touch key in some partition, the frame holding only
\* {key: new value} for the partitions that touched it; a write that does not
\* touch key produces no frame and no error.
C30_KeyFilteredReplay ==
    \A start \in 1.._seq, P \in (SUBSET Namespaces) \ {{}}, k \in Keys :
        LET r == read(start, Some(P), Some(k))
            later == TouchSeqs(P, k, start)
        IN  /\ r.exc = ""
            /\ Len(r.frames) = 1 + Cardinality(later)
            /\ r.frames[1] = <<start, [ns \in P |-> [j \in {k} |-> ValueAsOf(ns, k, start)]]>>
            /\ \A n \in 1..Cardinality(later) :
                  LET s == NthOf(later, n)
                  IN  r.frames[n + 1] =
                          <<s, [ns \in TouchedAt(P, k, s) |-> [j \in {k} |-> WrittenValue(ns, k, s)]]>>

\* C31: each MultiLog.put(payload, tag) increases seq by exactly 1 and
\* returns it, appends exactly one line '<seq> <tag> <payload>' to the file
\* of tag with index floor(seq / segment_size), modifies no other file, and
\* sets the tail-cache entry of tag to (seq, payload) leaving the entries of
\* all other tags unchanged; hence in every reachable state of one session
\* the tail cache maps each written tag to its last (sequence, payload).
C31_PutFrame ==
    /\ [][\A event \in Payloads, tag \in Tags : put(event, tag) =>
            LET f == <<tag, Fmt09((ml_seq + 1) \div segment_size)>>
                line == [seqno |-> ml_seq + 1, tag |-> tag, jdata |-> event \o <<"\n">>]
            IN  /\ ml_seq' = ml_seq + 1
                /\ ml_ret' = ml_seq + 1
                /\ DOMAIN ml_files' = (DOMAIN ml_files) \cup {f}
                /\ ml_files'[f] = (IF f \in DOMAIN ml_files THEN ml_files[f] ELSE << >>) \o <<line>>
                /\ \A g \in (DOMAIN ml_files) \ {f} : ml_files'[g] = ml_files[g]
                /\ DOMAIN _cur' = (DOMAIN _cur) \cup {tag}
                /\ _cur'[tag] = <<ml_seq + 1, event>>
                /\ \A t \in (DOMAIN _cur) \ {tag} : _cur'[t] = _cur[t]]_vars
    /\ [](/\ DOMAIN _cur = {ml_hist[i][2] : i \in DOMAIN ml_hist}
          /\ \A t \in DOMAIN _cur :
                LET last == CHOOSE i \in DOMAIN ml_hist :
                                /\ ml_hist[i][2] = t
                                /\ \A j \in DOMAIN ml_hist : ml_hist[j][2] = t => j <= i
                IN  _cur[t] = <<ml_hist[last][1], ml_hist[last][3]>>)

\* a put appended to a file that had a line, while the other tag keeps an
\* older entry in the tail cache
C31_Witness ==
    /\ DOMAIN _cur = Tags
    /\ \E t \in Tags : _cur[t][1] < ml_seq - 1
    /\ \E f \in DOMAIN ml_files :
          /\ Len(ml_files[f]) >= 2
          /\ ml_files[f][Len(ml_files[f])].seqno = ml_seq

\* C32: in one session, after any sequence of write/multiwrite calls,
\* namespaces() is exactly the set of partitions written, and for every such
\* partition P the cache entry equals (sequence of P's last record, map
\* obtained by folding P's highest-index segment file from its first line),
\* which is what _read_ns(P) computes from disk and the merge of all the
\* updates of P.
C32_CacheMatchesDisk ==
    /\ namespaces(_state) = {ns \in Namespaces : WrittenSeqs(ns) # {}}
    /\ \A P \in namespaces(_state) :
          LET top == CHOOSE f \in _segfiles(files, P) :
                         \A g \in _segfiles(files, P) : fileseg(g) <= fileseg(f)
          IN  /\ _state[P][1] = SetMax(WrittenSeqs(P))
              /\ _state[P][1] = files[top][Len(files[top])].seqno
              /\ _state[P][2] = FoldLines(files[top], 1, EmptyDict)
              /\ _state[P] = _read_ns(files, P)
              /\ _state[P][2] = StateAsOf(P, _seq)

\* both partitions are cached, one of them with a key that only an earlier
\* segment file than its last holds as an update
C32_Witness ==
    /\ namespaces(_state) = Namespaces
    /\ \E P \in Namespaces :
          /\ Cardinality(_segfiles(files, P)) >= 2
          /\ DOMAIN _state[P][2] = Keys
          /\ \E k \in Keys : \A i \in DOMAIN hist :
                (P \in DOMAIN hist[i][2] /\ k \in DOMAIN hist[i][2][P]) => hist[i][1] < segment_size

\* C33: in one session starting from an empty directory, after any sequence
\* of write and multiwrite calls - for every multiwrite argument, including
\* the empty map - the sequence counter equals the largest sequence number
\* recorded in any segment file (0 when there is none), and a following
\* get(P) returns a map without raising the inconsistency error.
C33_CounterMatchesDisk ==
    /\ _seq = MaxSeqOnDisk(files)
    /\ \A P \in Namespaces : get(P, None, None).exc = ""

\* the lines of the MultiLog files, and of the MonoLog files, that carry the
\* sequence number s
MultiLogLinesAt(s) ==
    {<<f, i>> \in UNION {{f} \X DOMAIN ml_files[f] : f \in DOMAIN ml_files} :
        ml_files[f][i].seqno = s}
MonoLogLinesAt(s) ==
    {<<f, i>> \in UNION {{f} \X DOMAIN mono_files[f] : f \in DOMAIN mono_files} :
        mono_files[f][i].seqno = s}

\* C34: with ThreadSafeLogMixin over MultiLog, or with a lock passed to
\* MonoLog, the whole put runs while holding the lock, so in every
\* interleaving of concurrent put calls the returned sequence numbers are
\* distinct and consecutive (each put returns one more than the put that
\* returned before it), every sequence number has exactly one record (none
\* only while the put that took the number has not written yet), and each
\* file's lines are in strictly increasing sequence order.
C34_LockedPutsSerialized ==
    /\ [][(\E t \in Threads : MultiLog_put_return(t)) => ml_ret' = ml_ret + 1]_vars
    /\ [][(\E t \in Threads : MonoLog_put_return(t)) => mono_ret' = mono_ret + 1]_vars
    /\ [](/\ \A t \in Threads : th_pc[t] \in {"entered", "loaded", "stored", "written"}
                => writelock = Some(t)
          /\ \A t \in Threads : th_pc[t] \in {"m_entered", "m_loaded", "m_stored", "m_written"}
                => mono_lock = Some(t)
          /\ \A i \in DOMAIN ml_hist : ml_hist[i][1] = i
          /\ \A i \in DOMAIN mono_hist : mono_hist[i][1] = i
          /\ \A s \in 1..ml_seq :
                Cardinality(MultiLogLinesAt(s)) =
                    IF s = ml_seq /\ \E t \in Threads : th_pc[t] = "stored" THEN 0 ELSE 1
          /\ \A s \in 1..mono_seq :
                Cardinality(MonoLogLinesAt(s)) =
                    IF s = mono_seq /\ \E t \in Threads : th_pc[t] = "m_stored" THEN 0 ELSE 1
          /\ \A f \in DOMAIN ml_files : \A i, j \in DOMAIN ml_files[f] :
                i < j => ml_files[f][i].seqno < ml_files[f][j].seqno
          /\ \A f \in DOMAIN mono_files : \A i, j \in DOMAIN mono_files[f] :
                i < j => mono_files[f][i].seqno < mono_files[f][j].seqno)

\* both threads have made all their calls, each of them one put on each
\* engine, one first on the one engine and second on the other
C34_Witness ==
    /\ ~mono_mixin
    /\ \A t \in Threads : th_pc[t] = "idle" /\ Len(th_ret[t]) = MaxCalls
    /\ ml_ret = 2 /\ mono_ret = 2
    /\ \A t \in Threads : {th_ret[t][i].val : i \in DOMAIN th_ret[t]} = {1, 2}
    /\ Len(ml_hist) = 2 /\ ml_hist[1][2] = ml_hist[2][2]
    /\ Len(mono_hist) = 2

\* C35: the bare engines are not thread-safe: without the lock there is an
\* interleaving of two concurrent MultiLog.put calls in which two records
\* are written with the same sequence number. The interleaving is the one
\* in which both calls load the counter before either stores it: whenever
\* two calls that loaded the same value have both written, two records carry
\* that value plus one, and the counter stands at it, so that the next
\* number was given to neither.
C35_BareNotThreadSafe ==
    \A t1, t2 \in Threads :
        ( /\ t1 # t2
          /\ th_pc[t1] = "written" /\ th_pc[t2] = "written"
          /\ th_local[t1].tmp = th_local[t2].tmp )
        => /\ Cardinality({i \in DOMAIN ml_hist : ml_hist[i][1] = th_local[t1].tmp + 1}) >= 2
           /\ Cardinality(MultiLogLinesAt(th_local[t1].tmp + 1)) >= 2
           /\ th_local[t1].seqno = th_local[t2].seqno

\* two concurrent puts of the first calls of two threads have both written
\* sequence number 1 under one tag: the file holds two lines numbered 1
C35_Witness ==
    /\ \A t \in Threads : th_pc[t] = "written" /\ th_local[t].tmp = 0 /\ th_local[t].ns = "a"
    /\ ml_seq = 1
    /\ Len(ml_hist) = 2
    /\ \E f \in DOMAIN ml_files :
          Len(ml_files[f]) = 2 /\ ml_files[f][1].seqno = 1 /\ ml_files[f][2].seqno = 1

\* C36: a put on an engine composed as ThreadSafeLogMixin over MonoLog always
\* terminates: the call never waits for a lock that the same call already
\* holds (the lock is free again when put returns)
C36_MixinPutNotSelfBlocked ==
    \A t \in Threads :
        ~(mono_mixin /\ th_pc[t] = "mixin" /\ mono_lock = Some(t))

\* C37: live tailing in read_ns: the last segment to visit is recomputed from
\* the current sequence counter at every loop test, not fixed when the
\* iterator is created. Every next() either yields one more frame or ends
\* the iterator; it ends only when it has passed the segment of the counter
\* as it is then, and the frames it yielded after its first file are then
\* the records of the partition in all later segments up to that one,
\* whatever was written while it was suspended. With no write since it was
\* made, its frames are those of an uninterrupted run.
C37_LiveTailing ==
    /\ [][read_ns_next =>
            /\ gen'.pc # "done" => Len(gen'.out) = Len(gen.out) + 1
            /\ gen'.pc = "done" =>
                  /\ gen'.out = gen.out
                  /\ gen'.curseg >= lastseg(_seq)
                  /\ SubSeq(gen'.out, gen'.nfirst + 1, Len(gen'.out))
                        = read_ns_later(files, _seq, gen.ns, gen.key,
                                        gen.start \div segment_size, << >>)]_vars
    /\ [](gen.pc = "done" /\ _seq = gen.seq0
            => gen.out = read_ns_on(files, _seq, gen.ns, gen.start, gen.key))

\* a generator that had yielded while the counter was in the segment of its
\* start, and has ended after yielding a record of a later segment that was
\* written after that yield
C37_Witness ==
    /\ gen.pc = "done"
    /\ Len(gen.at) >= 2
    /\ gen.at[1] >= gen.start
    /\ lastseg(gen.at[1]) = gen.start \div segment_size
    /\ lastseg(gen.at[1]) < lastseg(_seq)
    /\ \E i \in (gen.nfirst + 1)..Len(gen.out) : gen.out[i][1] > gen.at[1]

\* the store that the write calls made so far produce when nothing else is
\* called in between
RECURSIVE ReplayWrites(_, _)
ReplayWrites(i, st) ==
    IF i > Len(hist) THEN st
    ELSE LET ns == CHOOSE n \in DOMAIN hist[i][2] : TRUE
         IN  ReplayWrites(i + 1, _write(st, ns, hist[i][1], hist[i][2][ns]))

\* C38: reads are read-only: StateKeeper.get (current or historical),
\* read_ns and read never change the sequence counter, the current-state
\* cache or any segment file, for any interleaving of iterator steps with
\* writes: the store is at all times the one the writes alone produce.
C38_ReadsReadOnly ==
    /\ [][( \/ \E key \in IterKeys, seqno \in GetSeqs : StateKeeper_get("a", key, seqno)
            \/ \E key \in IterKeys : StateKeeper_read(1, None, key)
            \/ \E key \in IterKeys : read_ns_call("a", 1, key)
            \/ read_ns_next )
          => UNCHANGED <<files, _state, _seq>>]_vars
    /\ [](/\ _seq = Len(hist)
          /\ [files |-> files, cache |-> _state]
                = ReplayWrites(1, [files |-> << >>, cache |-> << >>]))

\* get or read has been called, a read_ns generator has been stepped to its
\* end with writes between its steps, and the store holds what was written
C38_Witness ==
    /\ gen.pc = "done"
    /\ Len(gen.at) >= 2
    /\ gen.at[1] >= 1
    /\ gen.at[1] < _seq
    /\ got["StateKeeper"] # "none"
    /\ _seq = MaxWrites
    /\ "a" \in DOMAIN _state

\* C39: failure atomicity of a write: if opening or appending to the segment
\* file fails with an IO error during StateKeeper.write or MultiLog.put, the
\* engine is left as before the call, so that the next successful write
\* receives the sequence number the failed one would have had and seq still
\* equals the number of successful writes
C39_FailureAtomic ==
    /\ _seq = Len(hist)
    /\ ml_seq = Len(ml_hist)

\* C40: MultiLog payload round trip: for every payload string p without
\* newline put under tag t at sequence s, the payload returned by
\* get(seqno=s) and the payload in the (s, t, payload) tuple yielded by read
\* are equal to p exactly (no record terminator attached), the same value
\* that get() without seqno returns right after that put
C40_PayloadRoundTrip ==
    \A i \in DOMAIN ml_hist :
        LET s   == ml_hist[i][1]
            p   == ml_hist[i][3]
            out == MultiLog_read(1, None)
        IN  /\ MultiLog_get(None, Some(s)) = Return(p)
            /\ \A j \in DOMAIN out : out[j][1] = s => out[j][3] = p
            /\ i = Len(ml_hist) => MultiLog_get(None, None) = Return(p)

====
